---- MODULE Spec2Model ----
(***************************************************************************)
(* Refigma plugin: the generation orchestrator (handleGenerateAiSite), the *)
(* scene-graph builder (applyTokensDemo and its section builders) and the  *)
(* content-application engine (applyGeminiContent, setText, findText).     *)
(*                                                                         *)
(* JavaScript values are tagged records; strings are TLA+ strings; the     *)
(* canvas is a store of nodes, each with an ordered list of children.      *)
(* One action is one synchronous stretch of code between two awaits, or a  *)
(* part of one.                                                            *)
(***************************************************************************)
EXTENDS Integers, Sequences, FiniteSets, TLC

VARIABLES
    apiKey,       \* GEMINI_API_KEY, fixed when the plugin is bundled
    inbox,        \* per command: the prompt of the generate-ai-site message
    received,     \* per command: the provider's response, once it has arrived
    before,       \* per command: the canvas when applyGeminiContent was entered
    pc,           \* per command: where handleGenerateAiSite is suspended
    uiMessages,   \* figma.ui.postMessage calls, oldest first
    notices,      \* figma.notify calls, oldest first
    requests,     \* fetch calls to the provider, oldest first
    nodes,        \* the canvas: node id -> node
    page,         \* figma.currentPage.children
    siteContent,  \* per command: the parsed payload (local of the handler)
    stack,        \* per command: node references held by the running builders
    bpc,          \* per command: position in the build program
    landing,      \* per command: the root returned by applyTokensDemo
    apc,          \* per command: position in applyGeminiContent
    call,         \* per command: the setText call in progress
    resolved      \* the token resolver call in hand: its arguments, then its result

vars == <<apiKey, inbox, received, before, pc, uiMessages, notices, requests, nodes, page, siteContent,
          stack, bpc, landing, apc, call, resolved>>

(***************************************************************************)
(* JavaScript values                                                       *)
(***************************************************************************)
Undef == [t |-> "undefined"]
Null == [t |-> "null"]
Str(s) == [t |-> "string", s |-> s]
Num(n) == [t |-> "number", n |-> n]
Obj(f) == [t |-> "object", f |-> f]
Arr(items) == [t |-> "array", items |-> items]
EmptyObj == Obj(<<>>)

\* value == null
IsNullish(v) == v.t \in {"undefined", "null"}

\* ToBoolean(v): the empty string, 0, null and undefined are falsy
Truthy(v) ==
    CASE v.t \in {"undefined", "null"} -> FALSE
      [] v.t = "string" -> v.s # ""
      [] v.t = "number" -> v.n # 0
      [] OTHER -> TRUE

\* v.k, for a v that is not null or undefined
Get(v, k) ==
    IF v.t = "object" /\ k \in DOMAIN v.f THEN v.f[k] ELSE Undef

\* Array.isArray(v)
IsArray(v) == v.t = "array"

\* list[i] for a JavaScript array (i counted from 0)
At(list, i) == IF i + 1 <= Len(list) THEN list[i + 1] ELSE Undef

(***************************************************************************)
(* Strings                                                                 *)
(***************************************************************************)
Ch(s, i) == SubSeq(s, i, i)

\* s.startsWith(lit, i - 1)
HasAt(s, i, lit) == i + Len(lit) - 1 <= Len(s) /\ SubSeq(s, i, i + Len(lit) - 1) = lit

WhiteSpace == {" ", "\n", "\t", "\r"}

RECURSIVE TrimStart(_)
TrimStart(s) ==
    IF Len(s) > 0 /\ Ch(s, 1) \in WhiteSpace THEN TrimStart(SubSeq(s, 2, Len(s))) ELSE s

RECURSIVE TrimEnd(_)
TrimEnd(s) ==
    IF Len(s) > 0 /\ Ch(s, Len(s)) \in WhiteSpace
    THEN TrimEnd(SubSeq(s, 1, Len(s) - 1))
    ELSE s

\* String.prototype.trim
Trim(s) == TrimEnd(TrimStart(s))

\* parts.join(sep)
RECURSIVE Join(_, _)
Join(parts, sep) ==
    IF Len(parts) = 0 THEN ""
    ELSE IF Len(parts) = 1 THEN parts[1]
    ELSE parts[1] \o sep \o Join(Tail(parts), sep)

(***************************************************************************)
(* JSON.parse, for the JSON the provider exchange uses: objects, arrays,   *)
(* strings with the escapes \" \\ \/ \n \t \r, null, true, false and       *)
(* unsigned integers.  A parse result is [ok, v, i]: i is the position     *)
(* after the value.                                                        *)
(***************************************************************************)
Bool(b) == [t |-> "boolean", b |-> b]

Fail == [ok |-> FALSE, v |-> Undef, i |-> 0]

Digits == {"0", "1", "2", "3", "4", "5", "6", "7", "8", "9"}

DigitValue(c) ==
    CASE c = "0" -> 0 [] c = "1" -> 1 [] c = "2" -> 2 [] c = "3" -> 3 [] c = "4" -> 4
      [] c = "5" -> 5 [] c = "6" -> 6 [] c = "7" -> 7 [] c = "8" -> 8 [] c = "9" -> 9

RECURSIVE SkipWs(_, _)
SkipWs(s, i) ==
    IF i <= Len(s) /\ Ch(s, i) \in WhiteSpace THEN SkipWs(s, i + 1) ELSE i

\* the characters of a string literal, from position i (after the opening quote)
RECURSIVE ParseStr(_, _, _)
ParseStr(s, i, acc) ==
    IF i > Len(s) THEN Fail
    ELSE LET c == Ch(s, i) IN
         IF c = "\"" THEN [ok |-> TRUE, v |-> Str(acc), i |-> i + 1]
         ELSE IF c = "\\" THEN
             IF i + 1 > Len(s) THEN Fail
             ELSE LET e == Ch(s, i + 1) IN
                  IF e \in {"\"", "\\", "/"} THEN ParseStr(s, i + 2, acc \o e)
                  ELSE IF e = "n" THEN ParseStr(s, i + 2, acc \o "\n")
                  ELSE IF e = "t" THEN ParseStr(s, i + 2, acc \o "\t")
                  ELSE IF e = "r" THEN ParseStr(s, i + 2, acc \o "\r")
                  ELSE Fail
         ELSE IF c \in {"\n", "\t", "\r"} THEN Fail
         ELSE ParseStr(s, i + 1, acc \o c)

RECURSIVE ParseNum(_, _, _)
ParseNum(s, i, acc) ==
    IF i <= Len(s) /\ Ch(s, i) \in Digits
    THEN ParseNum(s, i + 1, 10 * acc + DigitValue(Ch(s, i)))
    ELSE [ok |-> TRUE, v |-> Num(acc), i |-> i]

\* f with key k set to v (a later duplicate key wins)
Put(f, k, v) == [x \in (DOMAIN f) \cup {k} |-> IF x = k THEN v ELSE f[x]]

RECURSIVE ParseValue(_, _)
RECURSIVE ParseMembers(_, _, _)
RECURSIVE ParseItems(_, _, _)

\* the members of an object, from the first key at position i
ParseMembers(s, i, f) ==
    IF i > Len(s) \/ Ch(s, i) # "\"" THEN Fail
    ELSE LET k == ParseStr(s, i + 1, "") IN
         IF ~k.ok THEN Fail
         ELSE LET c == SkipWs(s, k.i) IN
              IF c > Len(s) \/ Ch(s, c) # ":" THEN Fail
              ELSE LET v == ParseValue(s, c + 1) IN
                   IF ~v.ok THEN Fail
                   ELSE LET g == Put(f, k.v.s, v.v)
                            n == SkipWs(s, v.i)
                        IN IF n > Len(s) THEN Fail
                           ELSE IF Ch(s, n) = "}" THEN [ok |-> TRUE, v |-> Obj(g), i |-> n + 1]
                           ELSE IF Ch(s, n) = "," THEN ParseMembers(s, SkipWs(s, n + 1), g)
                           ELSE Fail

\* the items of an array, from the first item at position i
ParseItems(s, i, items) ==
    LET v == ParseValue(s, i) IN
    IF ~v.ok THEN Fail
    ELSE LET n == SkipWs(s, v.i) IN
         IF n > Len(s) THEN Fail
         ELSE IF Ch(s, n) = "]" THEN [ok |-> TRUE, v |-> Arr(Append(items, v.v)), i |-> n + 1]
         ELSE IF Ch(s, n) = "," THEN ParseItems(s, n + 1, Append(items, v.v))
         ELSE Fail

ParseValue(s, i) ==
    LET j == SkipWs(s, i) IN
    IF j > Len(s) THEN Fail
    ELSE LET c == Ch(s, j) IN
         IF c = "{" THEN
             LET n == SkipWs(s, j + 1) IN
             IF n <= Len(s) /\ Ch(s, n) = "}"
             THEN [ok |-> TRUE, v |-> EmptyObj, i |-> n + 1]
             ELSE ParseMembers(s, n, <<>>)
         ELSE IF c = "[" THEN
             LET n == SkipWs(s, j + 1) IN
             IF n <= Len(s) /\ Ch(s, n) = "]"
             THEN [ok |-> TRUE, v |-> Arr(<<>>), i |-> n + 1]
             ELSE ParseItems(s, n, <<>>)
         ELSE IF c = "\"" THEN ParseStr(s, j + 1, "")
         ELSE IF HasAt(s, j, "null") THEN [ok |-> TRUE, v |-> Null, i |-> j + 4]
         ELSE IF HasAt(s, j, "true") THEN [ok |-> TRUE, v |-> Bool(TRUE), i |-> j + 4]
         ELSE IF HasAt(s, j, "false") THEN [ok |-> TRUE, v |-> Bool(FALSE), i |-> j + 5]
         ELSE IF c \in Digits THEN ParseNum(s, j, 0)
         ELSE Fail

\* JSON.parse(s): [ok |-> TRUE, v |-> value], or [ok |-> FALSE] for a SyntaxError
JsonParse(s) ==
    LET r == ParseValue(s, 1) IN
    IF r.ok /\ SkipWs(s, r.i) > Len(s)
    THEN [ok |-> TRUE, v |-> r.v]
    ELSE [ok |-> FALSE, v |-> Undef]

\* JSON.stringify of a string
RECURSIVE Escape(_)
Escape(s) ==
    IF Len(s) = 0 THEN ""
    ELSE LET c == Ch(s, 1)
             e == IF c = "\"" THEN "\\\""
                  ELSE IF c = "\\" THEN "\\\\"
                  ELSE IF c = "\n" THEN "\\n"
                  ELSE IF c = "\t" THEN "\\t"
                  ELSE IF c = "\r" THEN "\\r"
                  ELSE c
         IN e \o Escape(SubSeq(s, 2, Len(s)))

JsonQuote(s) == "\"" \o Escape(s) \o "\""

(***************************************************************************)
(* Tokens used by the builder                                              *)
(***************************************************************************)
INTER_STYLES ==
    << [threshold |-> 700, style |-> "Bold"],
       [threshold |-> 600, style |-> "Semi Bold"],
       [threshold |-> 500, style |-> "Medium"],
       [threshold |-> 0, style |-> "Regular"] >>

\* tokens.typography.fontFamily
FontFamily == "Inter"

\* tokens.typography.scale[variant].fontWeight
FontWeight(variant) ==
    CASE variant = "h1" -> 700
      [] variant = "h2" -> 700
      [] variant = "h3" -> 600
      [] variant = "body" -> 400
      [] variant = "bodyBold" -> 600
      [] variant = "caption" -> 400
      [] variant = "captionBold" -> 600

\* FirstStyle with weight > threshold for weight >= threshold
RECURSIVE FirstStyleAbove(_, _)
FirstStyleAbove(weight, i) ==
    IF i > Len(INTER_STYLES) THEN INTER_STYLES[Len(INTER_STYLES)]
    ELSE IF weight > INTER_STYLES[i].threshold THEN INTER_STYLES[i]
    ELSE FirstStyleAbove(weight, i + 1)

\* the first entry of the table, from position i on, whose threshold is <= weight
RECURSIVE FirstStyle(_, _)
FirstStyle(weight, i) ==
    IF i > Len(INTER_STYLES) THEN INTER_STYLES[Len(INTER_STYLES)]
    ELSE IF weight >= INTER_STYLES[i].threshold THEN INTER_STYLES[i]
    ELSE FirstStyle(weight, i + 1)

resolveInterFont(weight) ==
    [family |-> FontFamily, style |-> FirstStyle(weight, 1).style]

(***************************************************************************)
(* The canvas.  A node is a record; its id is its index in `nodes`; 0 is   *)
(* null.  figma.mixed is Mixed.                                            *)
(***************************************************************************)
Mixed == [mixed |-> TRUE]

\* the font a text node has before any is set
HostFont == [family |-> "Inter", style |-> "Regular"]

\* figma.createFrame(), figma.createText(), figma.createRectangle(), ...: the
\* host names a new node after its type
NewNode(kind, name) ==
    [kind |-> kind, name |-> name, named |-> FALSE, characters |-> "",
     visible |-> TRUE, children |-> <<>>, fontName |-> HostFont, rangeFonts |-> <<>>]

\* the descendants of the nodes of `list`, those nodes included, parents before
\* their children and children in order
RECURSIVE Walk(_, _)
Walk(ns, list) ==
    IF Len(list) = 0 THEN <<>>
    ELSE <<Head(list)>> \o Walk(ns, ns[Head(list)].children) \o Walk(ns, Tail(list))

\* root.findOne(P): the first descendant of root that satisfies P, or null
\* P gives the fields the predicate compares, with the values it wants
FindOne(ns, root, P) ==
    LET d == Walk(ns, ns[root].children)
        hits == {i \in 1..Len(d) : \A f \in DOMAIN P : ns[d[i]][f] = P[f]}
    IN IF hits = {} THEN 0 ELSE d[CHOOSE i \in hits : \A j \in hits : i <= j]

\* the predicates the code passes to findOne
IsText == [kind |-> "TEXT"]
IsTextNamed(name) == [kind |-> "TEXT", name |-> name]
IsNamed(name) == [name |-> name]

(***************************************************************************)
(* The build program: what applyTokensDemo and the builders it calls do to *)
(* the canvas, as a sequence of operations on a stack of node references   *)
(* (the builders' local variables; the top is the last element).           *)
(*   frame, shape  create a node and push it                               *)
(*   text          createTextNode: create a text node and push it, await   *)
(*                 the font, then set its font and characters              *)
(*   name          name the top node                                       *)
(*   append        parent.appendChild(child): child and parent are depths  *)
(*                 in the stack (0 is the top); the child leaves the stack *)
(*   label         name the first text node found under the top node       *)
(*   page          attach the top node to the page and return it           *)
(* Styling that no later code reads (fills, padding, effects, sizes) is    *)
(* left out.                                                               *)
(***************************************************************************)
Frame == << [op |-> "frame"] >>
Shape(kind) == << [op |-> "shape", kind |-> kind] >>
Name(n) == << [op |-> "name", name |-> n] >>
AppendTo(child, parent) == << [op |-> "append", child |-> child, parent |-> parent] >>
AppendChild == AppendTo(0, 1)
Label(n) == << [op |-> "label", name |-> n] >>
ToPage == << [op |-> "page"] >>

createAutoLayout == Frame

createTextNode(content, variant) ==
    << [op |-> "text", content |-> content, variant |-> variant] >>

\* IndexText giving every index the same text
IndexTextFixed(i) == "0"

IndexText(i) == CASE i = 0 -> "0" [] i = 1 -> "1" [] i = 2 -> "2" [] i = 3 -> "3"

createButton(label) ==
    createAutoLayout \o createTextNode(label, "captionBold") \o AppendChild

\* createMetricCard with the label's name misspelt
createMetricCardRenamed(index, value, label) ==
    createAutoLayout \o Name("HeroMetric:" \o IndexText(index))
    \o createTextNode(value, "h3") \o Name("HeroMetric:" \o IndexText(index) \o ":Value")
    \o AppendChild
    \o createTextNode(label, "caption") \o Name("HeroMetric:" \o IndexText(index) \o ":Caption")
    \o AppendChild

createMetricCard(index, value, label) ==
    createAutoLayout \o Name("HeroMetric:" \o IndexText(index))
    \o createTextNode(value, "h3") \o Name("HeroMetric:" \o IndexText(index) \o ":Value")
    \o AppendChild
    \o createTextNode(label, "caption") \o Name("HeroMetric:" \o IndexText(index) \o ":Label")
    \o AppendChild

createHeroVisualHeader ==
    createAutoLayout
    \o createTextNode("Realtime preview aktif", "captionBold") \o AppendChild
    \o createTextNode("Sinkronisasi token live", "caption") \o AppendChild

createHeroVisualToolbar ==
    LET dot == Shape("ELLIPSE") \o AppendChild IN
    createAutoLayout             \* toolbar
    \o createAutoLayout          \* left
    \o createAutoLayout          \* dots
    \o dot \o dot \o dot
    \o AppendChild               \* left.appendChild(dots)
    \o createTextNode("Board Refigma Nova", "captionBold") \o AppendChild
    \o AppendChild               \* toolbar.appendChild(left)
    \o createAutoLayout          \* status
    \o createTextNode("Autosave on", "captionBold") \o AppendChild
    \o AppendChild               \* toolbar.appendChild(status)

createHeroVisualMainCard ==
    LET pill(chip) ==
            createAutoLayout \o createTextNode(chip, "captionBold") \o AppendChild
            \o AppendChild
    IN
    createAutoLayout             \* card
    \o createTextNode("Layout hero siap handoff", "bodyBold") \o AppendChild
    \o createTextNode(
         "Variant desktop, tablet, dan mobile diselaraskan otomatis dengan token Refigma.",
         "caption") \o AppendChild
    \o Frame                     \* progressWrapper
    \o Shape("RECTANGLE")        \* progressFill
    \o AppendChild \o AppendChild
    \o createAutoLayout          \* progressRow
    \o createTextNode("72% token sinkron", "captionBold") \o AppendChild
    \o createTextNode("7 pemeriksaan QA selesai", "caption") \o AppendChild
    \o AppendChild
    \o createAutoLayout          \* chips
    \o pill("Spec link otomatis") \o pill("Akses developer") \o pill("Checklist lulus")
    \o AppendChild

createHeroVisualSidebar ==
    LET row(time, text) ==
            createAutoLayout
            \o createTextNode(time, "captionBold") \o AppendChild
            \o createTextNode(text, "caption") \o AppendChild
            \o AppendChild
    IN
    createAutoLayout             \* sidebar
    \o createAutoLayout          \* syncCard
    \o createTextNode("Log sinkron", "captionBold") \o AppendChild
    \o row("09:42", "Token warna diperbarui")
    \o row("09:10", "Komponen hero disalin")
    \o AppendChild               \* sidebar.appendChild(syncCard)
    \o createAutoLayout          \* pulseCard
    \o createTextNode("Pulse tim", "captionBold") \o AppendChild
    \o createAutoLayout          \* pulseInfo
    \o createTextNode("18 anggota online", "captionBold") \o AppendChild
    \o createTextNode("Komentar baru dalam 5 menit terakhir", "caption") \o AppendChild
    \o AppendChild               \* pulseCard.appendChild(pulseInfo)
    \o AppendChild               \* sidebar.appendChild(pulseCard)

createHeroVisualReviewRow ==
    LET avatar == Shape("ELLIPSE") \o AppendChild IN
    createAutoLayout             \* reviewRow
    \o createAutoLayout          \* avatars
    \o avatar \o avatar \o avatar \o avatar
    \o AppendChild
    \o createTextNode("Review selesai untuk 4 tim desain", "caption") \o AppendChild

createHeroVisualContent ==
    createAutoLayout             \* body
    \o createAutoLayout          \* layoutRow
    \o createHeroVisualMainCard \o AppendChild
    \o createHeroVisualSidebar \o AppendChild
    \o AppendChild               \* body.appendChild(layoutRow)
    \o createHeroVisualReviewRow \o AppendChild

createHeroVisualBody ==
    createAutoLayout
    \o createHeroVisualToolbar \o AppendChild
    \o createHeroVisualContent \o AppendChild

createHeroVisualStats ==
    LET card(value, label, hint) ==
            createAutoLayout
            \o createTextNode(value, "bodyBold") \o AppendChild
            \o createTextNode(label, "captionBold") \o AppendChild
            \o createTextNode(hint, "caption") \o AppendChild
            \o AppendChild
    IN
    createAutoLayout
    \o card("Realtime", "Sync aktif", "Tidak ada debt")
    \o card("18", "Layout diterbitkan", "+4 minggu ini")
    \o card("12/12", "Checklist QA", "Lengkap")

createHeroVisual ==
    createAutoLayout
    \o createHeroVisualHeader \o AppendChild
    \o createHeroVisualBody \o AppendChild
    \o createHeroVisualStats \o AppendChild

createHeroSection ==
    LET highlight(index, item) ==
            createAutoLayout \o Name("Hero:Highlight:" \o IndexText(index))
            \o Shape("RECTANGLE") \o AppendChild
            \o createTextNode(item, "caption")
            \o Name("Hero:Highlight:" \o IndexText(index) \o ":Text") \o AppendChild
            \o AppendChild
    IN
    createAutoLayout \o Name("Section/Hero")
    \o createTextNode("Section/Hero", "captionBold") \o Name("Hero:SectionLabel")
    \o AppendChild
    \o createAutoLayout          \* badge
    \o createTextNode("AI Copilot", "captionBold") \o Name("Hero:BadgeTitle") \o AppendChild
    \o createTextNode("Automasi layout & dokumentasi", "caption")
    \o Name("Hero:BadgeSubtitle") \o AppendChild
    \o AppendChild               \* hero.appendChild(badge)
    \o createAutoLayout          \* layout
    \o createAutoLayout          \* copy
    \o createTextNode("Bangun hero landing page siap handoff", "h1") \o Name("Hero:Heading")
    \o AppendChild
    \o createTextNode(
         "Integrasikan auto layout, tokens, dan dokumentasi Refigma agar developer langsung mengirim fitur tanpa revisi ulang.",
         "body") \o Name("Hero:Subheading") \o AppendChild
    \o createAutoLayout          \* highlightList
    \o highlight(0, "Token & styles tersinkron otomatis ke seluruh platform")
    \o highlight(1, "Template hero, fitur, hingga testimonial siap produksi")
    \o highlight(2, "Checklist QA dan dokumentasi developer selalu terbaru")
    \o AppendChild               \* copy.appendChild(highlightList)
    \o createAutoLayout          \* ctaRow
    \o createButton("Mulai sekarang") \o Name("HeroCTA:Primary")
    \o Label("HeroCTA:Primary:Label") \o AppendChild
    \o createButton("Lihat panduan") \o Name("HeroCTA:Secondary")
    \o Label("HeroCTA:Secondary:Label") \o AppendChild
    \o AppendChild               \* copy.appendChild(ctaRow)
    \o createAutoLayout          \* assurance
    \o Shape("ELLIPSE") \o AppendChild
    \o createTextNode("Dipercaya 120+ tim produk di Asia Tenggara", "caption")
    \o Name("Hero:Assurance") \o AppendChild
    \o AppendChild               \* copy.appendChild(assurance)
    \o AppendChild               \* layout.appendChild(copy)
    \o createHeroVisual \o AppendChild
    \o AppendChild               \* hero.appendChild(layout)
    \o createAutoLayout          \* metricsRow
    \o createMetricCard(0, "72%", "Token sinkron dalam sekali klik") \o AppendChild
    \o createMetricCard(1, "2x", "Lebih cepat menyiapkan handoff") \o AppendChild
    \o createMetricCard(2, "5 menit", "Update dokumen developer otomatis") \o AppendChild
    \o AppendChild               \* hero.appendChild(metricsRow)

createTestimonialCopyColumn ==
    LET bullet(index, item) ==
            createAutoLayout \o Name("Testimonial:Bullet:" \o IndexText(index))
            \o Shape("RECTANGLE") \o AppendChild
            \o createTextNode(item, "caption")
            \o Name("Testimonial:Bullet:" \o IndexText(index) \o ":Text") \o AppendChild
            \o AppendChild
    IN
    createAutoLayout             \* column
    \o createTextNode(
         "\"Sejak Refigma, diskusi desain ke dev tinggal satu sumber kebenaran.\"", "h3")
    \o Name("Testimonial:Quote") \o AppendChild
    \o createAutoLayout          \* bulletList
    \o bullet(0, "Token, referensi, dan dokumentasi siap konsumsi developer.")
    \o bullet(1, "Stakeholder review cepat karena preview selalu up to date.")
    \o bullet(2, "Sprint planning lebih singkat berkat checklist QA otomatis.")
    \o AppendChild
    \o createAutoLayout          \* footer
    \o createTextNode("Tim produk OrbitPay", "captionBold") \o Name("Testimonial:Attribution")
    \o AppendChild
    \o createTextNode("Skala 12 produk digital", "caption")
    \o Name("Testimonial:AttributionRole") \o AppendChild
    \o AppendChild
    \o createAutoLayout          \* callout
    \o createTextNode("Skor kepuasan 4.9/5", "captionBold") \o Name("Testimonial:Callout")
    \o AppendChild
    \o AppendChild

\* data.metric is set for each of the three cards
buildTestimonialCard(quote, name, role, metric) ==
    createAutoLayout             \* card
    \o createTextNode(quote, "body") \o AppendChild
    \o Shape("RECTANGLE") \o AppendChild          \* divider
    \o createAutoLayout          \* footer
    \o Shape("ELLIPSE") \o AppendChild            \* avatar
    \o createAutoLayout          \* info
    \o createTextNode(name, "bodyBold") \o AppendChild
    \o createTextNode(role, "caption") \o AppendChild
    \o AppendChild               \* footer.appendChild(info)
    \o AppendChild               \* card.appendChild(footer)
    \o createAutoLayout          \* metricBadge
    \o createTextNode(metric, "captionBold") \o AppendChild
    \o AppendChild

createTestimonialCards ==
    createAutoLayout             \* grid
    \o createAutoLayout          \* leftColumn
    \o createAutoLayout          \* rightColumn
    \o buildTestimonialCard(
         "\"Refigma menjadikan token dan komponen kami satu sumber kebenaran. Dev tinggal tarik.\"",
         "Salsa Pradipta", "VP Design DaringLabs", "55% lebih cepat")
    \o AppendTo(0, 2)            \* leftColumn.appendChild(card)
    \o buildTestimonialCard(
         "\"Dokumentasi developer langsung tersusun. QA tidak lagi copy manual.\"",
         "Kevin Mahardika", "Head of Product Lokalite", "0 bug layout")
    \o AppendTo(0, 2)
    \o buildTestimonialCard(
         "\"Stakeholder bisa review versi terbaru tanpa minta file tambahan.\"",
         "Chandra Tanu", "Founder GridStack", "3x siklus review")
    \o AppendTo(0, 1)            \* rightColumn.appendChild(card)
    \o AppendTo(1, 2)            \* grid.appendChild(leftColumn)
    \o AppendTo(0, 1)            \* grid.appendChild(rightColumn)

createTestimonialSection ==
    createAutoLayout \o Name("Section/Testimonials")
    \o createAutoLayout          \* heading
    \o createAutoLayout          \* headingBadge
    \o createTextNode("Suara tim produk", "captionBold") \o Name("Testimonial:BadgeTitle")
    \o AppendChild
    \o AppendChild               \* heading.appendChild(headingBadge)
    \o createTextNode("Bagaimana Refigma mempercepat kolaborasi", "h2")
    \o Name("Testimonial:Heading") \o AppendChild
    \o createTextNode(
         "Ritme sprint lebih ringan karena handoff, dokumentasi, dan perubahan token berjalan serentak.",
         "body") \o Name("Testimonial:Subtitle") \o AppendChild
    \o AppendChild               \* section.appendChild(heading)
    \o createAutoLayout          \* content
    \o createTestimonialCopyColumn \o AppendChild
    \o createTestimonialCards \o AppendChild
    \o AppendChild               \* section.appendChild(content)

createCTASection ==
    createAutoLayout \o Name("Section/CTA")
    \o createTextNode("Siap menjaga konsistensi desain?", "h2") \o Name("CTA:Heading")
    \o AppendChild
    \o createTextNode(
         "Aktifkan Refigma dan biarkan AI mendokumentasikan setiap keputusan desain.", "body")
    \o Name("CTA:Body") \o AppendChild
    \o createAutoLayout          \* actions
    \o createButton("Mulai gratis") \o Name("CTA:PrimaryButton")
    \o Label("CTA:PrimaryLabel") \o AppendChild
    \o createButton("Lihat changelog") \o Name("CTA:SecondaryButton")
    \o Label("CTA:SecondaryLabel") \o AppendChild
    \o AppendChild               \* section.appendChild(actions)

\* applyTokensDemo with its last two sections exchanged
applyTokensDemoReordered ==
    createAutoLayout \o Name("Template/Landing-Refigma")
    \o createHeroSection \o AppendChild
    \o createCTASection \o AppendChild
    \o createTestimonialSection \o AppendChild
    \o ToPage

applyTokensDemo ==
    createAutoLayout \o Name("Template/Landing-Refigma")
    \o createHeroSection \o AppendChild
    \o createTestimonialSection \o AppendChild
    \o createCTASection \o AppendChild
    \o ToPage

BuildProgram == applyTokensDemo

Top(st) == st[Len(st)]

RemoveAt(seq, i) == SubSeq(seq, 1, i - 1) \o SubSeq(seq, i + 1, Len(seq))

\* SetCharacters naming the node after its text
SetCharactersRenaming(n, value) ==
    [n EXCEPT !.characters = value,
              !.name = value,
              !.fontName = IF n.fontName = Mixed THEN n.rangeFonts[1] ELSE n.fontName,
              !.rangeFonts = <<>>]

\* node.characters = value; a node the code never named is renamed by the host
\* after its text
SetCharacters(n, value) ==
    [n EXCEPT !.characters = value,
              !.name = IF n.named THEN n.name ELSE value,
              !.fontName = IF n.fontName = Mixed THEN n.rangeFonts[1] ELSE n.fontName,
              !.rangeFonts = <<>>]

\* one operation of the build program other than text, on
\* st = [nodes, stack, page, landing]
Exec(st, o) ==
    LET n == Len(st.stack) IN
    CASE o.op = "frame" ->
           [st EXCEPT !.nodes = Append(@, NewNode("FRAME", "Frame")),
                      !.stack = Append(@, Len(st.nodes) + 1)]
      [] o.op = "shape" ->
           [st EXCEPT !.nodes = Append(@, NewNode(o.kind,
                                   IF o.kind = "ELLIPSE" THEN "Ellipse" ELSE "Rectangle")),
                      !.stack = Append(@, Len(st.nodes) + 1)]
      [] o.op = "name" ->
           [st EXCEPT !.nodes[Top(st.stack)].name = o.name,
                      !.nodes[Top(st.stack)].named = TRUE]
      [] o.op = "append" ->
           [st EXCEPT !.nodes[st.stack[n - o.parent]].children =
                          Append(@, st.stack[n - o.child]),
                      !.stack = RemoveAt(@, n - o.child)]
      [] o.op = "label" ->
           LET t == FindOne(st.nodes, Top(st.stack), IsText) IN
           IF t = 0 THEN st
           ELSE [st EXCEPT !.nodes[t].name = o.name, !.nodes[t].named = TRUE]
      [] o.op = "page" ->
           [st EXCEPT !.page = Append(@, Top(st.stack)),
                      !.landing = Top(st.stack),
                      !.stack = RemoveAt(@, n)]

\* TextCreate handing out a text node the canvas already holds
TextCreateShared(st) ==
    LET texts == {i \in 1..Len(st.nodes) : st.nodes[i].kind = "TEXT"} IN
    IF texts = {} THEN [st EXCEPT !.nodes = Append(@, NewNode("TEXT", "Text")),
                                  !.stack = Append(@, Len(st.nodes) + 1)]
    ELSE [st EXCEPT !.stack = Append(@, CHOOSE i \in texts : \A j \in texts : i <= j)]

\* createTextNode up to its await: figma.createText(), then applyTextStyle calls
\* figma.loadFontAsync
TextCreate(st) ==
    [st EXCEPT !.nodes = Append(@, NewNode("TEXT", "Text")),
               !.stack = Append(@, Len(st.nodes) + 1)]

\* createTextNode after its await: the font, then the characters
TextFinish(st, o) ==
    LET t == Top(st.stack)
        styled == [st.nodes[t] EXCEPT !.fontName = resolveInterFont(FontWeight(o.variant))]
    IN [st EXCEPT !.nodes[t] = SetCharacters(styled, o.content)]

\* the build from operation i up to the next await, or to its end: [st, i], with i
\* the text operation it is suspended in, or Len(BuildProgram) + 1
RECURSIVE RunBuild(_, _)
RunBuild(st, i) ==
    IF i > Len(BuildProgram) THEN [st |-> st, i |-> i]
    ELSE IF BuildProgram[i].op = "text" THEN [st |-> TextCreate(st), i |-> i]
    ELSE RunBuild(Exec(st, BuildProgram[i]), i + 1)

(***************************************************************************)
(* The provider exchange                                                   *)
(***************************************************************************)
\* JSON.stringify
RECURSIVE JsonStringify(_)
RECURSIVE StringifyMembers(_, _)
RECURSIVE StringifyItems(_)

StringifyMembers(f, keys) ==
    IF keys = {} THEN ""
    ELSE LET k == CHOOSE x \in keys : TRUE
             rest == keys \ {k}
         IN JsonQuote(k) \o ":" \o JsonStringify(f[k])
            \o (IF rest = {} THEN "" ELSE "," \o StringifyMembers(f, rest))

StringifyItems(items) ==
    IF Len(items) = 0 THEN ""
    ELSE JsonStringify(Head(items))
         \o (IF Len(items) = 1 THEN "" ELSE "," \o StringifyItems(Tail(items)))

JsonStringify(v) ==
    CASE v.t = "string" -> JsonQuote(v.s)
      [] v.t = "null" -> "null"
      [] v.t = "boolean" -> IF v.b THEN "true" ELSE "false"
      [] v.t = "object" -> "{" \o StringifyMembers(v.f, DOMAIN v.f) \o "}"
      [] v.t = "array" -> "[" \o StringifyItems(v.items) \o "]"

\* new Error(message), and a thrown value that is no Error
ErrorOf(message) == [isError |-> TRUE, message |-> message]
NonError == [isError |-> FALSE, message |-> ""]
Throw(e) == [ok |-> FALSE, v |-> Undef, error |-> e]
Return(v) == [ok |-> TRUE, v |-> v, error |-> NonError]

\* what the host throws: a failed fetch, JSON.parse on text that is no JSON, a
\* property read on null or undefined, a font that cannot be loaded
FetchFailed == ErrorOf("Failed to fetch")
HostSyntaxError == ErrorOf("Unexpected token in JSON")
HostTypeError == ErrorOf("Cannot read properties of null")
FontUnavailable == ErrorOf("The font could not be loaded")

\* s.indexOf(c) and s.lastIndexOf(c), counted from 1; 0 when there is none
IndexOf(s, c) ==
    LET at == {i \in 1..Len(s) : Ch(s, i) = c} IN
    IF at = {} THEN 0 ELSE CHOOSE i \in at : \A j \in at : i <= j

LastIndexOf(s, c) ==
    LET at == {i \in 1..Len(s) : Ch(s, i) = c} IN
    IF at = {} THEN 0 ELSE CHOOSE i \in at : \A j \in at : i >= j

\* MatchBraces ending at the first "}" after the leftmost "{"
MatchBracesShortest(rawText) ==
    LET first == IndexOf(rawText, "{")
        after == {i \in 1..Len(rawText) : i > first /\ Ch(rawText, i) = "}"}
    IN IF first # 0 /\ after # {}
       THEN [found |-> TRUE,
             text |-> SubSeq(rawText, first, CHOOSE i \in after : \A j \in after : i <= j)]
       ELSE [found |-> FALSE, text |-> ""]

\* rawText.match(/\{[\s\S]*\}/): from the leftmost "{" to the rightmost "}"
MatchBraces(rawText) ==
    LET first == IndexOf(rawText, "{")
        last == LastIndexOf(rawText, "}")
    IN IF first # 0 /\ last > first
       THEN [found |-> TRUE, text |-> SubSeq(rawText, first, last)]
       ELSE [found |-> FALSE, text |-> ""]

MsgNoJson == "Gemini tidak menghasilkan JSON yang valid."
MsgParseFailed == "Gagal mem-parsing JSON dari Gemini."
MsgNoContent == "Gemini tidak mengembalikan konten."

\* parseGeminiJson taking text without braces for an empty payload
parseGeminiJsonLenient(rawText) ==
    LET match == MatchBraces(rawText) IN
    IF ~match.found THEN Return(EmptyObj)
    ELSE LET parsed == JsonParse(match.text) IN
         IF parsed.ok THEN Return(parsed.v) ELSE Throw(ErrorOf(MsgParseFailed))

parseGeminiJson(rawText) ==
    LET match == MatchBraces(rawText) IN
    IF ~match.found THEN Throw(ErrorOf(MsgNoJson))
    ELSE LET parsed == JsonParse(match.text) IN
         IF parsed.ok THEN Return(parsed.v) ELSE Throw(ErrorOf(MsgParseFailed))

\* parts.map(part => part && typeof part.text === 'string' ? part.text : '')
PartTexts(parts) ==
    [i \in 1..Len(parts) |->
        IF Truthy(parts[i]) /\ Get(parts[i], "text").t = "string"
        THEN Get(parts[i], "text").s
        ELSE ""]

\* ProviderErrorMessage that never reads the body
ProviderErrorMessageDefaulted(response) == "Gemini API error: " \o response.statusText

\* ProviderErrorMessage whose default is the bare status text
ProviderErrorMessageBare(response) ==
    LET errorBody == response.json IN
    IF /\ errorBody.ok
       /\ Truthy(errorBody.v)
       /\ Truthy(Get(errorBody.v, "error"))
       /\ Get(Get(errorBody.v, "error"), "message").t = "string"
    THEN Get(Get(errorBody.v, "error"), "message").s
    ELSE response.statusText

\* the message of the error thrown for a non-success HTTP status
ProviderErrorMessage(response) ==
    LET errorBody == response.json IN
    IF /\ errorBody.ok
       /\ Truthy(errorBody.v)
       /\ Truthy(Get(errorBody.v, "error"))
       /\ Get(Get(errorBody.v, "error"), "message").t = "string"
    THEN Get(Get(errorBody.v, "error"), "message").s
    ELSE "Gemini API error: " \o response.statusText

\* requestGeminiContent from the moment fetch settles.  A response is
\* [rejected, ok, statusText, json]; json is what response.json() gives: [ok, v],
\* not ok when the body is no JSON.
requestGeminiContent(response) ==
    IF response.rejected THEN Throw(FetchFailed)
    ELSE IF ~response.ok THEN Throw(ErrorOf(ProviderErrorMessage(response)))
    ELSE
        LET data == response.json IN
        IF ~data.ok THEN Throw(HostSyntaxError)
        ELSE IF IsNullish(data.v) THEN Throw(HostTypeError)
        ELSE LET candidates == Get(data.v, "candidates") IN
             IF IsArray(candidates) /\ Len(candidates.items) > 0
                /\ IsNullish(candidates.items[1])
             THEN Throw(HostTypeError)
             ELSE LET rawText ==
                          IF IsArray(candidates) /\ Len(candidates.items) > 0
                          THEN LET content == Get(candidates.items[1], "content")
                                   parts == IF Truthy(content) /\ IsArray(Get(content, "parts"))
                                            THEN Get(content, "parts").items
                                            ELSE <<>>
                               IN Trim(Join(PartTexts(parts), "\n"))
                          ELSE ""
                  IN IF rawText = "" THEN Throw(ErrorOf(MsgNoContent))
                     ELSE parseGeminiJson(rawText)

\* the start of the prompt buildGeminiPrompt wraps the user's text in, and its end
buildGeminiPrompt(userPrompt) ==
    "Gunakan deskripsi berikut untuk memahami konteks: \"" \o userPrompt
    \o "\".\nBalas HANYA dalam format JSON tanpa teks tambahan"

(***************************************************************************)
(* applyGeminiContent as a program: one operation per anchor, in the order *)
(* of the code                                                             *)
(***************************************************************************)
Scalar(section, field, anchor) ==
    [kind |-> "scalar", section |-> section, field |-> field, i |-> 0,
     anchor |-> anchor, row |-> ""]

Row(section, field, i, row) ==
    [kind |-> "row", section |-> section, field |-> field, i |-> i,
     anchor |-> row \o ":Text", row |-> row]

Metric(i, field, anchor) ==
    [kind |-> "metric", section |-> "metrics", field |-> field, i |-> i,
     anchor |-> anchor, row |-> ""]

RowCount == 3

ApplyProgram ==
    << Scalar("hero", "title", "Hero:Heading"),
       Scalar("hero", "subtitle", "Hero:Subheading"),
       Scalar("hero", "primaryCta", "HeroCTA:Primary:Label"),
       Scalar("hero", "secondaryCta", "HeroCTA:Secondary:Label"),
       Scalar("hero", "assurance", "Hero:Assurance") >>
    \o [i \in 1..RowCount |->
          Row("hero", "highlights", i - 1, "Hero:Highlight:" \o IndexText(i - 1))]
    \o [j \in 1..(2 * RowCount) |->
          LET i == (j - 1) \div 2 IN
          IF j % 2 = 1
          THEN Metric(i, "value", "HeroMetric:" \o IndexText(i) \o ":Value")
          ELSE Metric(i, "label", "HeroMetric:" \o IndexText(i) \o ":Label")]
    \o << Scalar("testimonial", "heading", "Testimonial:Heading"),
          Scalar("testimonial", "subtitle", "Testimonial:Subtitle"),
          Scalar("testimonial", "quote", "Testimonial:Quote"),
          Scalar("testimonial", "attribution", "Testimonial:Attribution"),
          Scalar("testimonial", "attributionRole", "Testimonial:AttributionRole"),
          Scalar("testimonial", "callout", "Testimonial:Callout") >>
    \o [i \in 1..RowCount |->
          Row("testimonial", "bullets", i - 1, "Testimonial:Bullet:" \o IndexText(i - 1))]
    \o << Scalar("cta", "title", "CTA:Heading"),
          Scalar("cta", "subtitle", "CTA:Body"),
          Scalar("cta", "primaryCta", "CTA:PrimaryLabel"),
          Scalar("cta", "secondaryCta", "CTA:SecondaryLabel") >>

\* content.hero ? content.hero : {}
SectionOf(content, section) ==
    LET v == Get(content, section) IN IF Truthy(v) THEN v ELSE EmptyObj

\* Array.isArray(x) ? x : []
ListOf(v) == IF IsArray(v) THEN v.items ELSE <<>>

\* MetricField giving the empty string for a missing metric
MetricFieldCleared(metric, field) ==
    IF Truthy(metric) THEN Get(metric, field) ELSE Str("")

\* metric ? metric.value : undefined
MetricField(metric, field) == IF Truthy(metric) THEN Get(metric, field) ELSE Undef

\* the value an operation hands to setText
OpValue(content, o) ==
    CASE o.kind = "scalar" -> Get(SectionOf(content, o.section), o.field)
      [] o.kind = "row" -> At(ListOf(Get(SectionOf(content, o.section), o.field)), o.i)
      [] o.kind = "metric" -> MetricField(At(ListOf(Get(content, "metrics")), o.i), o.field)

\* findText searching the whole canvas instead of the tree of root
findTextAnywhere(ns, root, name) ==
    LET hits == {id \in 1..Len(ns) : ns[id].kind = "TEXT" /\ ns[id].name = name} IN
    IF hits = {} THEN 0 ELSE CHOOSE id \in hits : \A other \in hits : id <= other

findText(ns, root, name) ==
    FindOne(ns, root, IsTextNamed(name))

\* landing.findOne((node) => node.name === name)
findByName(ns, root, name) == FindOne(ns, root, IsNamed(name))

\* RowShown without the test of the text anchor
RowShownUnanchored(item, textNode) == Truthy(item)

\* if (highlight && highlightText)
RowShown(item, textNode) == Truthy(item) /\ textNode # 0

\* SetTextReturns testing the value for truthiness
SetTextReturnsOnFalsy(node, value) == node = 0 \/ ~Truthy(value)

\* SetTextReturns without the test of the node
SetTextReturnsUnguarded(node, value) == IsNullish(value)

\* if (!node || value == null) return
SetTextReturns(node, value) == node = 0 \/ IsNullish(value)

\* node.getRangeFontName(i, i + 1), i counted from 0
RangeFont(n, i) == IF n.fontName = Mixed THEN n.rangeFonts[i + 1] ELSE n.fontName

\* the fonts a text node uses
FontsUsed(n) ==
    IF n.fontName = Mixed THEN {n.rangeFonts[i] : i \in 1..Len(n.rangeFonts)}
    ELSE {n.fontName}

\* MoreRanges of a loop that stops after the first range
MoreRangesFirstOnly(k) == FALSE

\* i + 1 < length: the loop of setText has another range to load
MoreRanges(k) == k.mixed /\ k.i + 1 < k.length

\* no token resolver call is in hand
NoQuery == [fn |-> "none"]

NoCall ==
    [node |-> 0, value |-> Undef, row |-> 0, mixed |-> FALSE, length |-> 0, i |-> 0,
     awaiting |-> HostFont, loaded |-> {}, assigns |-> 0, returned |-> FALSE]

(***************************************************************************)
(* Inputs                                                                  *)
(***************************************************************************)
Cmds == {"c1"}

\* import.meta.env.VITE_GEMINI_API_KEY
ApiKeys == {Undef, Str(""), Str("key")}

\* message.prompt
Prompts == {Undef, Num(7), Str(""), Str(" \n "), Str(" toko kopi ")}

PayloadHighlights == Obj([hero |-> Obj([highlights |-> Arr(<<Str("A"), Str("B")>>)])])

PayloadMetrics == Obj([metrics |-> Arr(<<Obj([value |-> Str("72%")])>>)])

PayloadFull ==
    Obj([hero |-> Obj([title |-> Str("T"), subtitle |-> Str("S"), primaryCta |-> Str("P"),
                       secondaryCta |-> Str("Q"), assurance |-> Str(""),
                       highlights |-> Arr(<<Str("A"), Str(""), Str("C")>>)]),
         metrics |-> Arr(<<Obj([value |-> Str("1"), label |-> Str("one")]),
                           Null,
                           Obj([label |-> Str("three")])>>),
         testimonial |-> Obj([heading |-> Str("H"), subtitle |-> Null, quote |-> Str("U"),
                              bullets |-> Arr(<<Str("X")>>), attribution |-> Str("N"),
                              attributionRole |-> Str("R"), callout |-> Str("K")]),
         cta |-> Obj([title |-> Str("T2"), subtitle |-> Str("S2"),
                      primaryCta |-> Str("P2"), secondaryCta |-> Str("Q2")])])

\* the payloads the provider sends in the orchestrator's runs
SitePayloads == {EmptyObj, PayloadHighlights, PayloadMetrics, PayloadFull}

\* the JSON of a successful provider response whose first candidate has these parts
GeminiData(texts) ==
    Obj([candidates |-> Arr(<<
        Obj([content |-> Obj([parts |-> Arr([i \in 1..Len(texts) |->
                                              Obj([text |-> Str(texts[i])])])])])>>)])

\* no response yet
NoResponse == [none |-> TRUE]

Json(v) == [ok |-> TRUE, v |-> v]
NotJson == [ok |-> FALSE, v |-> Undef]

Http(ok, statusText, json) ==
    [rejected |-> FALSE, ok |-> ok, statusText |-> statusText, json |-> json]

\* the texts of a candidate's parts
PartLists ==
    {<<JsonStringify(p)>> : p \in SitePayloads}
    \cup { <<"Berikut JSON-nya:\n" \o JsonStringify(PayloadHighlights) \o "\nSemoga membantu.">>,
           <<"{\"hero\":", "{\"title\":\"T\"}}">>,
           <<"{\"hero\":{}} atau {\"cta\":{}}">>,
           <<"Maaf, saya tidak bisa membantu.">>,
           <<"} terbalik {">>,
           <<"{ belum selesai">>,
           <<"{hero: tanpa kutip}">>,
           <<"  ", "\n">>,
           <<>> }

\* what the provider may answer
Responses ==
    { [rejected |-> TRUE, ok |-> FALSE, statusText |-> "", json |-> NotJson] }
    \cup { Http(FALSE, st, b) :
             st \in {"Too Many Requests", ""},
             b \in { Json(Obj([error |-> Obj([message |-> Str("quota exceeded")])])),
                     Json(Obj([error |-> Obj([message |-> Str("")])])),
                     Json(Obj([error |-> Obj([message |-> Num(429)])])),
                     Json(Obj([error |-> Obj([code |-> Num(429)])])),
                     Json(Obj([error |-> Str("quota exceeded")])),
                     Json(Obj([message |-> Str("quota exceeded")])),
                     Json(Null),
                     NotJson } }
    \cup { Http(TRUE, "OK", Json(GeminiData(texts))) : texts \in PartLists }
    \cup { Http(TRUE, "OK", b) :
             b \in { NotJson, Json(Null), Json(EmptyObj),
                     Json(Obj([candidates |-> Arr(<<>>)])),
                     Json(Obj([candidates |-> Arr(<<Null>>)])),
                     Json(Obj([candidates |-> Arr(<<EmptyObj>>)])),
                     Json(Obj([candidates |-> Arr(<<
                        Obj([content |-> Obj([parts |-> Arr(<<Obj([text |-> Num(7)]),
                                                               Null>>)])])>>)])) } }

(***************************************************************************)
(* The orchestrator: handleGenerateAiSite                                  *)
(***************************************************************************)
MsgPrompt == "Masukkan prompt yang jelas untuk Gemini."
MsgNoKey == "Konfigurasi Gemini API belum tersedia (VITE_GEMINI_API_KEY)."
MsgLoading == "Menghubungi Gemini untuk merumuskan konten..."
MsgApplying == "Menyiapkan layout Refigma berdasarkan konten Gemini..."
MsgSuccess == "Website selesai digenerate di kanvas."
MsgGeneric == "Terjadi kesalahan saat memanggil Gemini."
NoteNoKey == "Set VITE_GEMINI_API_KEY di file .env anda."
NoteReady == "Website hasil Gemini sudah siap!"
NoteFailed == "Gagal menghasilkan website dari Gemini."

\* postStatus posting the tag without the text
postStatusBare(log, c, status, text) ==
    Append(log, [cmd |-> c, type |-> "generation-status", status |-> status, text |-> ""])

postStatus(log, c, status, text) ==
    Append(log, [cmd |-> c, type |-> "generation-status", status |-> status, text |-> text])

notify(log, c, text) == Append(log, [cmd |-> c, text |-> text])

\* PromptRejected without the trim
PromptRejectedUntrimmed(prompt) == prompt.t # "string" \/ prompt.s = ""

\* typeof prompt !== 'string' || !prompt.trim()
PromptRejected(prompt) == prompt.t # "string" \/ Trim(prompt.s) = ""

\* error instanceof Error ? error.message : '...'
CatchMessage(error) == IF error.isError THEN error.message ELSE MsgGeneric

\* the catch block without its status update
CatchUnreported(c, error) ==
    /\ notices' = notify(notices, c, NoteFailed)
    /\ pc' = [pc EXCEPT ![c] = "done"]
    /\ UNCHANGED uiMessages

\* the catch block of handleGenerateAiSite
Catch(c, error) ==
    /\ uiMessages' = postStatus(uiMessages, c, "error", CatchMessage(error))
    /\ notices' = notify(notices, c, NoteFailed)
    /\ pc' = [pc EXCEPT ![c] = "done"]

\* Generate sending its request a second time
GenerateTwice(c) ==
    /\ pc[c] = "idle"
    /\ LET prompt == inbox[c] IN
         IF PromptRejected(prompt) THEN
             /\ uiMessages' = postStatus(uiMessages, c, "error", MsgPrompt)
             /\ pc' = [pc EXCEPT ![c] = "done"]
             /\ UNCHANGED <<notices, requests>>
         ELSE IF ~Truthy(apiKey) THEN
             /\ uiMessages' = postStatus(uiMessages, c, "error", MsgNoKey)
             /\ notices' = notify(notices, c, NoteNoKey)
             /\ pc' = [pc EXCEPT ![c] = "done"]
             /\ UNCHANGED requests
         ELSE
             /\ uiMessages' = postStatus(uiMessages, c, "loading", MsgLoading)
             /\ requests' = Append(requests,
                                   [cmd |-> c, prompt |-> buildGeminiPrompt(Trim(prompt.s))])
                             \o <<[cmd |-> c, prompt |-> buildGeminiPrompt(Trim(prompt.s))]>>
             /\ pc' = [pc EXCEPT ![c] = "fetch"]
             /\ UNCHANGED notices
    /\ UNCHANGED <<resolved, apiKey, inbox, received, before, nodes, page, siteContent, stack, bpc,
                   landing, apc, call>>

\* a generate-ai-site message arrives: the validation, then the request
Generate(c) ==
    /\ pc[c] = "idle"
    /\ LET prompt == inbox[c] IN
         IF PromptRejected(prompt) THEN
             /\ uiMessages' = postStatus(uiMessages, c, "error", MsgPrompt)
             /\ pc' = [pc EXCEPT ![c] = "done"]
             /\ UNCHANGED <<notices, requests>>
         ELSE IF ~Truthy(apiKey) THEN
             /\ uiMessages' = postStatus(uiMessages, c, "error", MsgNoKey)
             /\ notices' = notify(notices, c, NoteNoKey)
             /\ pc' = [pc EXCEPT ![c] = "done"]
             /\ UNCHANGED requests
         ELSE
             /\ uiMessages' = postStatus(uiMessages, c, "loading", MsgLoading)
             /\ requests' = Append(requests,
                                   [cmd |-> c, prompt |-> buildGeminiPrompt(Trim(prompt.s))])
             /\ pc' = [pc EXCEPT ![c] = "fetch"]
             /\ UNCHANGED notices
    /\ UNCHANGED <<resolved, apiKey, inbox, received, before, nodes, page, siteContent, stack, bpc,
                   landing, apc, call>>

\* applyGeminiContent is entered once applyTokensDemo has returned
EnterApply(c, r) ==
    IF r.i > Len(BuildProgram)
    THEN /\ pc' = [pc EXCEPT ![c] = "apply"]
         /\ landing' = [landing EXCEPT ![c] = r.st.landing]
         /\ apc' = [apc EXCEPT ![c] = 1]
         /\ before' = [before EXCEPT ![c] = r.st.nodes]
    ELSE /\ pc' = [pc EXCEPT ![c] = "build"]
         /\ UNCHANGED <<landing, apc, before>>

\* the state of the build of command c
BuildState(c) == [nodes |-> nodes, stack |-> stack[c], page |-> page, landing |-> 0]

\* the build of command c moves on to r = [st, i]
BuildTo(c, r) ==
    /\ nodes' = r.st.nodes
    /\ page' = r.st.page
    /\ stack' = [stack EXCEPT ![c] = r.st.stack]
    /\ bpc' = [bpc EXCEPT ![c] = r.i]
    /\ EnterApply(c, r)

\* fetch settles: the rest of requestGeminiContent, then either the catch block or
\* the 'applying' status and the build up to its first font load
Respond(c, response) ==
    LET result == requestGeminiContent(response) IN
    /\ received' = [received EXCEPT ![c] = response]
    /\ IF ~result.ok THEN
           /\ Catch(c, result.error)
           /\ UNCHANGED <<nodes, page, siteContent, stack, bpc, landing, apc, before>>
       ELSE
           /\ siteContent' = [siteContent EXCEPT ![c] = result.v]
           /\ uiMessages' = postStatus(uiMessages, c, "applying", MsgApplying)
           /\ BuildTo(c, RunBuild(BuildState(c), 1))
           /\ UNCHANGED notices
    /\ UNCHANGED <<resolved, apiKey, inbox, requests, call>>

ProviderResponds(c) ==
    /\ pc[c] = "fetch"
    /\ \E response \in Responses : Respond(c, response)

\* the font awaited by createTextNode is loaded: the build goes on to its next
\* font load, or to its end
BuildFontLoaded(c) ==
    /\ pc[c] = "build"
    /\ BuildTo(c, RunBuild(TextFinish(BuildState(c), BuildProgram[bpc[c]]), bpc[c] + 1))
    /\ UNCHANGED <<resolved, apiKey, inbox, received, uiMessages, notices, requests, siteContent,
                   call>>

(***************************************************************************)
(* applyGeminiContent and setText                                          *)
(***************************************************************************)
\* the end of one operation of applyGeminiContent
NextOp(c) ==
    /\ apc' = [apc EXCEPT ![c] = @ + 1]
    /\ pc' = [pc EXCEPT ![c] = "apply"]

\* node.characters = value, then what follows the setText call: a row whose text
\* was set is made visible
Assign(ns, k) ==
    LET set == [ns EXCEPT ![k.node] = SetCharacters(@, k.value.s)] IN
    IF k.row # 0 THEN [set EXCEPT ![k.row].visible = TRUE] ELSE set

\* setText(node, value), then row.visible = true when a row is given: up to the
\* first font load, or to the end when there is none
setText(c, node, value, row) ==
    IF SetTextReturns(node, value) THEN
        /\ nodes' = (IF row # 0 THEN [nodes EXCEPT ![row].visible = TRUE] ELSE nodes)
        /\ call' = [call EXCEPT ![c] = [NoCall EXCEPT !.node = node, !.value = value,
                                                      !.returned = TRUE]]
        /\ NextOp(c)
        /\ UNCHANGED <<uiMessages, notices>>
    ELSE IF node = 0 THEN
        \* const fontName = node.fontName, on null
        /\ Catch(c, HostTypeError)
        /\ UNCHANGED <<nodes, apc, call>>
    ELSE
        LET n == nodes[node]
            k == [node |-> node, value |-> value, row |-> row,
                  mixed |-> n.fontName = Mixed, length |-> Len(n.characters), i |-> 0,
                  awaiting |-> RangeFont(n, 0), loaded |-> {}, assigns |-> 0,
                  returned |-> FALSE]
        IN IF k.mixed /\ k.length = 0 THEN
               /\ nodes' = Assign(nodes, k)
               /\ call' = [call EXCEPT ![c] = [k EXCEPT !.assigns = 1, !.returned = TRUE]]
               /\ NextOp(c)
               /\ UNCHANGED <<uiMessages, notices>>
           ELSE
               /\ call' = [call EXCEPT ![c] = k]
               /\ pc' = [pc EXCEPT ![c] = "font"]
               /\ UNCHANGED <<nodes, apc, uiMessages, notices>>

\* one operation of applyGeminiContent, up to its first await
ApplyStep(c) ==
    /\ pc[c] = "apply"
    /\ apc[c] <= Len(ApplyProgram)
    /\ LET o == ApplyProgram[apc[c]]
           value == OpValue(siteContent[c], o)
           textNode == findText(nodes, landing[c], o.anchor)
       IN IF o.kind = "row" THEN
              LET row == findByName(nodes, landing[c], o.row) IN
              IF RowShown(value, textNode) THEN setText(c, textNode, value, row)
              ELSE /\ nodes' = (IF row # 0 THEN [nodes EXCEPT ![row].visible = FALSE]
                                ELSE nodes)
                   /\ NextOp(c)
                   /\ UNCHANGED <<call, uiMessages, notices>>
          ELSE setText(c, textNode, value, 0)
    /\ UNCHANGED <<resolved, apiKey, inbox, received, before, requests, page, siteContent, stack,
                   bpc, landing>>

\* the font awaited by setText is loaded: the next range's font is awaited, or the
\* text is assigned
FontLoaded(c) ==
    /\ pc[c] = "font"
    /\ LET k == call[c]
           loaded == k.loaded \cup {k.awaiting}
       IN IF MoreRanges(k) THEN
              /\ call' = [call EXCEPT ![c] =
                            [k EXCEPT !.i = k.i + 1, !.loaded = loaded,
                                      !.awaiting = RangeFont(nodes[k.node], k.i + 1)]]
              /\ UNCHANGED <<nodes, pc, apc>>
          ELSE
              /\ nodes' = Assign(nodes, k)
              /\ call' = [call EXCEPT ![c] =
                            [k EXCEPT !.loaded = loaded, !.assigns = k.assigns + 1,
                                      !.returned = TRUE]]
              /\ NextOp(c)
    /\ UNCHANGED <<resolved, apiKey, inbox, received, before, uiMessages, notices, requests, page,
                   siteContent, stack, bpc, landing>>

\* FontRejected undoing the text and visibility changes made so far
FontRejectedUndone(c) ==
    /\ pc[c] \in {"build", "font"}
    /\ \E error \in {FontUnavailable, NonError} : Catch(c, error)
    /\ nodes' = (IF pc[c] = "font" THEN before[c] ELSE nodes)
    /\ UNCHANGED <<resolved, apiKey, inbox, received, before, requests, page, siteContent,
                   stack, bpc, landing, apc, call>>

\* figma.loadFontAsync rejects, in the build or in setText: the catch block
FontRejected(c) ==
    /\ pc[c] \in {"build", "font"}
    /\ \E error \in {FontUnavailable, NonError} : Catch(c, error)
    /\ UNCHANGED <<resolved, apiKey, inbox, received, before, requests, nodes, page, siteContent,
                   stack, bpc, landing, apc, call>>

\* Succeed reporting success before applyGeminiContent has returned
SucceedEarly(c) ==
    /\ pc[c] = "apply"
    /\ uiMessages' = postStatus(uiMessages, c, "success", MsgSuccess)
    /\ notices' = notify(notices, c, NoteReady)
    /\ pc' = [pc EXCEPT ![c] = "done"]
    /\ UNCHANGED <<resolved, apiKey, inbox, received, before, requests, nodes, page, siteContent,
                   stack, bpc, landing, apc, call>>

\* applyGeminiContent has returned
Succeed(c) ==
    /\ pc[c] = "apply"
    /\ apc[c] > Len(ApplyProgram)
    /\ uiMessages' = postStatus(uiMessages, c, "success", MsgSuccess)
    /\ notices' = notify(notices, c, NoteReady)
    /\ pc' = [pc EXCEPT ![c] = "done"]
    /\ UNCHANGED <<resolved, apiKey, inbox, received, before, requests, nodes, page, siteContent,
                   stack, bpc, landing, apc, call>>

(***************************************************************************)
(* The plugin, from the moment its UI is shown                             *)
(***************************************************************************)
Init ==
    /\ apiKey \in ApiKeys
    /\ inbox \in [Cmds -> Prompts]
    /\ received = [c \in Cmds |-> NoResponse]
    /\ before = [c \in Cmds |-> <<>>]
    /\ pc = [c \in Cmds |-> "idle"]
    /\ uiMessages = <<>>
    /\ notices = <<>>
    /\ requests = <<>>
    /\ nodes = <<>>
    /\ page = <<>>
    /\ siteContent = [c \in Cmds |-> Undef]
    /\ stack = [c \in Cmds |-> <<>>]
    /\ bpc = [c \in Cmds |-> 0]
    /\ landing = [c \in Cmds |-> 0]
    /\ apc = [c \in Cmds |-> 0]
    /\ call = [c \in Cmds |-> NoCall]
    /\ resolved = NoQuery

Next ==
    \E c \in Cmds :
        \/ Generate(c)
        \/ ProviderResponds(c)
        \/ BuildFontLoaded(c)
        \/ ApplyStep(c)
        \/ FontLoaded(c)
        \/ FontRejected(c)
        \/ Succeed(c)

Spec == Init /\ [][Next]_vars

(***************************************************************************)
(* applyGeminiContent on its own: the tree is the built tree after edits   *)
(* (text anchors removed, row containers renamed, a text anchor given      *)
(* mixed fonts), the payload any of ApplyPayloads.                         *)
(***************************************************************************)
\* the build when every font loads
RECURSIVE FinishBuild(_)
FinishBuild(r) ==
    IF r.i > Len(BuildProgram) THEN r.st
    ELSE FinishBuild(RunBuild(TextFinish(r.st, BuildProgram[r.i]), r.i + 1))

\* what applyTokensDemo leaves on an empty canvas
Built ==
    FinishBuild(RunBuild([nodes |-> <<>>, stack |-> <<>>, page |-> <<>>, landing |-> 0], 1))

\* the names applyGeminiContent looks up
TextAnchors == {ApplyProgram[i].anchor : i \in 1..Len(ApplyProgram)}
RowAnchors == {ApplyProgram[i].row : i \in 1..Len(ApplyProgram)} \ {""}

\* the text anchors that may carry mixed fonts
StyledAnchors == {"Hero:Assurance", "Hero:Highlight:0:Text", "HeroMetric:0:Value"}

Remove(a) == [edit |-> "remove", anchor |-> a]
Rename(a) == [edit |-> "rename", anchor |-> a]
Restyle(a) == [edit |-> "restyle", anchor |-> a]

Edits ==
    {Remove(a) : a \in TextAnchors}
    \cup {Rename(r) : r \in RowAnchors}
    \cup {Restyle(a) : a \in StyledAnchors}

\* the edits made to the built tree before applyGeminiContent runs: none, any
\* single one, a row container together with its text anchor, every text anchor
\* removed, every row container renamed, every anchor gone
EditSets ==
    {{}}
    \cup {{e} : e \in Edits}
    \cup {{Rename(r), Remove(r \o ":Text")} : r \in RowAnchors}
    \cup { {Remove(a) : a \in TextAnchors},
           {Rename(r) : r \in RowAnchors},
           {Remove(a) : a \in TextAnchors} \cup {Rename(r) : r \in RowAnchors} }

\* seq without the members of ids
RECURSIVE Without(_, _)
Without(seq, ids) ==
    IF Len(seq) = 0 THEN <<>>
    ELSE (IF Head(seq) \in ids THEN <<>> ELSE <<Head(seq)>>) \o Without(Tail(seq), ids)

\* a font other than f
OtherFont(f) ==
    IF f.style = "Bold" THEN [f EXCEPT !.style = "Regular"] ELSE [f EXCEPT !.style = "Bold"]

\* the nodes that the edits of kind `edit` in E are made to: where the name is
\* first found under root
Targets(ns, root, E, edit) ==
    {findByName(ns, root, e.anchor) : e \in {x \in E : x.edit = edit}} \ {0}

\* the canvas after the edits E
Edited(ns, root, E) ==
    LET removed == Targets(ns, root, E, "remove")
        renamed == Targets(ns, root, E, "rename")
        restyled == {id \in Targets(ns, root, E, "restyle") : Len(ns[id].characters) >= 2}
    IN [id \in 1..Len(ns) |->
          [ns[id] EXCEPT
             !.children = Without(@, removed),
             !.name = IF id \in renamed THEN "Layer" ELSE @,
             !.fontName = IF id \in restyled THEN Mixed ELSE @,
             !.rangeFonts = IF id \in restyled
                            THEN [i \in 1..Len(ns[id].characters) |->
                                    IF i = 1 THEN OtherFont(ns[id].fontName)
                                    ELSE ns[id].fontName]
                            ELSE @]]

\* a payload whose sections are not what the schema asks for
PayloadOdd ==
    Obj([hero |-> Str("x"), metrics |-> Str("m"),
         testimonial |-> Obj([bullets |-> Arr(<<Str("1"), Str("2"), Str("3"), Str("4")>>)]),
         cta |-> Null])

PayloadSparse ==
    Obj([hero |-> Obj([highlights |-> Arr(<<Null, Str("B")>>), title |-> Null]),
         metrics |-> Arr(<<Str("m"), Obj([value |-> Str(""), label |-> Null])>>),
         testimonial |-> Obj([bullets |-> Obj([length |-> Str("3")]), quote |-> Str("")])])

ApplyPayloads == SitePayloads \cup {PayloadOdd, PayloadSparse}

InitApply ==
    \E E \in EditSets, content \in ApplyPayloads :
        /\ apiKey = Str("key")
        /\ inbox = [c \in Cmds |-> Str(" toko kopi ")]
        /\ received = [c \in Cmds |->
                         Http(TRUE, "OK", Json(GeminiData(<<JsonStringify(content)>>)))]
        /\ uiMessages = <<>>
        /\ notices = <<>>
        /\ requests = <<>>
        /\ nodes = Edited(Built.nodes, Built.landing, E)
        /\ before = [c \in Cmds |-> nodes]
        /\ page = Built.page
        /\ siteContent = [c \in Cmds |-> content]
        /\ stack = [c \in Cmds |-> <<>>]
        /\ bpc = [c \in Cmds |-> Len(BuildProgram) + 1]
        /\ landing = [c \in Cmds |-> Built.landing]
        /\ pc = [c \in Cmds |-> "apply"]
        /\ apc = [c \in Cmds |-> 1]
        /\ call = [c \in Cmds |-> NoCall]
        /\ resolved = NoQuery

NextApply ==
    \E c \in Cmds :
        \/ ApplyStep(c)
        \/ FontLoaded(c)
        \/ FontRejected(c)
        \/ Succeed(c)

SpecApply == InitApply /\ [][NextApply]_vars

(***************************************************************************)
(* applyTokensDemo run by two apply-tokens messages: each handler is       *)
(* suspended at every font load of its build, so the two builds interleave *)
(* on the one canvas.                                                      *)
(***************************************************************************)
Builds == {"b1", "b2"}

NoteApplied == "Refigma tokens applied to new frame."

\* handleApplyTokens moves on to r = [st, i]: once applyTokensDemo has returned,
\* the notification
TokensTo(c, r) ==
    /\ nodes' = r.st.nodes
    /\ page' = r.st.page
    /\ stack' = [stack EXCEPT ![c] = r.st.stack]
    /\ bpc' = [bpc EXCEPT ![c] = r.i]
    /\ IF r.i > Len(BuildProgram)
       THEN /\ landing' = [landing EXCEPT ![c] = r.st.landing]
            /\ notices' = notify(notices, c, NoteApplied)
            /\ pc' = [pc EXCEPT ![c] = "done"]
       ELSE /\ pc' = [pc EXCEPT ![c] = "tokens"]
            /\ UNCHANGED <<landing, notices>>

\* an apply-tokens message arrives: the build up to its first font load
ApplyTokens(c) ==
    /\ pc[c] = "idle"
    /\ TokensTo(c, RunBuild(BuildState(c), 1))
    /\ UNCHANGED <<resolved, apiKey, inbox, received, before, uiMessages, requests,
                   siteContent, apc, call>>

\* the order in which the host settles the font loads of suspended builds: the
\* build that started last (its root is the younger frame) is resumed first
Resumes(c) ==
    \A o \in DOMAIN pc \ {c} : pc[o] = "tokens" => stack[o][1] < stack[c][1]

\* the font awaited by createTextNode is loaded
TokensFontLoaded(c) ==
    /\ pc[c] = "tokens"
    /\ Resumes(c)
    /\ TokensTo(c, RunBuild(TextFinish(BuildState(c), BuildProgram[bpc[c]]), bpc[c] + 1))
    /\ UNCHANGED <<resolved, apiKey, inbox, received, before, uiMessages, requests,
                   siteContent, apc, call>>

\* The builds followed here are those whose font loads all succeed (a rejected
\* load ends handleApplyTokens, which has no catch block, before it returns a tree).
InitBuild ==
    /\ apiKey = Str("key")
    /\ inbox = [c \in Builds |-> Undef]
    /\ received = [c \in Builds |-> NoResponse]
    /\ before = [c \in Builds |-> <<>>]
    /\ pc = [c \in Builds |-> "idle"]
    /\ uiMessages = <<>>
    /\ notices = <<>>
    /\ requests = <<>>
    /\ nodes = <<>>
    /\ page = <<>>
    /\ siteContent = [c \in Builds |-> Undef]
    /\ stack = [c \in Builds |-> <<>>]
    /\ bpc = [c \in Builds |-> 0]
    /\ landing = [c \in Builds |-> 0]
    /\ apc = [c \in Builds |-> 0]
    /\ call = [c \in Builds |-> NoCall]
    /\ resolved = NoQuery

NextBuild ==
    \E c \in Builds :
        \/ ApplyTokens(c)
        \/ TokensFontLoaded(c)

SpecBuild == InitBuild /\ [][NextBuild]_vars

(***************************************************************************)
(* Two generate-ai-site messages: the second handler starts while the      *)
(* first is suspended at the provider call or at a font load, and the two  *)
(* build and fill their trees on the one canvas.                           *)
(***************************************************************************)
Gens == {"g1", "g2"}

\* what the provider answers to each of the two commands
PairPayload(c) == IF c = "g1" THEN PayloadFull ELSE PayloadHighlights

PairReply(c) == Http(TRUE, "OK", Json(GeminiData(<<JsonStringify(PairPayload(c))>>)))

\* the handler of c is suspended at an await
InFlight(c) == pc[c] \notin {"idle", "done"}

\* the command whose request was sent first
FirstStarted == requests[1].cmd

\* how far the handler of c has come in its build and in applyGeminiContent
Progress(c) == bpc[c] + apc[c]

\* the order in which the host settles the awaits of two suspended handlers.
\* When g1 started first, the handler that has come less far is resumed, the
\* first-started one when they are level (the two take turns); when g2 started
\* first, the handler that started last is resumed (it runs to its end while
\* the other one stays suspended).
Turn(c) ==
    \A o \in Gens \ {c} :
        InFlight(o) =>
            IF FirstStarted = "g1"
            THEN IF c = FirstStarted THEN Progress(c) <= Progress(o)
                 ELSE Progress(c) < Progress(o)
            ELSE c # FirstStarted

\* the awaits of command c settle when it is its turn
PairResponds(c) ==
    /\ Turn(c)
    /\ pc[c] = "fetch"
    /\ Respond(c, PairReply(c))

PairBuildFontLoaded(c) ==
    /\ Turn(c)
    /\ BuildFontLoaded(c)

PairApplyStep(c) ==
    /\ Turn(c)
    /\ ApplyStep(c)

PairFontLoaded(c) ==
    /\ Turn(c)
    /\ FontLoaded(c)

PairSucceed(c) ==
    /\ Turn(c)
    /\ Succeed(c)

\* The runs followed here are those in which the provider answers both commands
\* with a payload and every font loads.
InitPair ==
    /\ apiKey = Str("key")
    /\ inbox = [c \in Gens |-> Str(" toko kopi ")]
    /\ received = [c \in Gens |-> NoResponse]
    /\ before = [c \in Gens |-> <<>>]
    /\ pc = [c \in Gens |-> "idle"]
    /\ uiMessages = <<>>
    /\ notices = <<>>
    /\ requests = <<>>
    /\ nodes = <<>>
    /\ page = <<>>
    /\ siteContent = [c \in Gens |-> Undef]
    /\ stack = [c \in Gens |-> <<>>]
    /\ bpc = [c \in Gens |-> 0]
    /\ landing = [c \in Gens |-> 0]
    /\ apc = [c \in Gens |-> 0]
    /\ call = [c \in Gens |-> NoCall]
    /\ resolved = NoQuery

NextPair ==
    \E c \in Gens :
        \/ Generate(c)
        \/ PairResponds(c)
        \/ PairBuildFontLoaded(c)
        \/ PairApplyStep(c)
        \/ PairFontLoaded(c)
        \/ PairSucceed(c)

SpecPair == InitPair /\ [][NextPair]_vars

(***************************************************************************)
(* The token resolver: getColor and spacing over tokens.json, with the     *)
(* property reads of JavaScript (own properties first, then the members    *)
(* inherited from Object.prototype).                                       *)
(***************************************************************************)
\* a built-in function object
Fn(name, length) == [t |-> "function", name |-> name, length |-> length]

\* the members an object literal inherits (four of them are followed here)
ObjectPrototype ==
    [constructor |-> Fn("Object", 1), toString |-> Fn("toString", 0),
     valueOf |-> Fn("valueOf", 0), hasOwnProperty |-> Fn("hasOwnProperty", 1)]

\* the own properties of an object or of a function
Own(v) ==
    CASE v.t = "object" -> v.f
      [] v.t = "function" -> [name |-> Str(v.name), length |-> Num(v.length)]
      [] OTHER -> <<>>

\* v[k], for an object or a function v
Member(v, k) ==
    IF k \in DOMAIN Own(v) THEN Own(v)[k]
    ELSE IF k \in DOMAIN ObjectPrototype THEN ObjectPrototype[k]
    ELSE Undef

\* k in v, for an object or a function v
HasMember(v, k) == k \in DOMAIN Own(v) \cup DOMAIN ObjectPrototype

\* s.split(sep), for a separator of one character
RECURSIVE Split(_, _)
Split(s, sep) ==
    LET at == IndexOf(s, sep) IN
    IF at = 0 THEN <<s>>
    ELSE <<SubSeq(s, 1, at - 1)>> \o Split(SubSeq(s, at + 1, Len(s)), sep)

DEFAULT_THEME == "light"
DEFAULT_COLOR == "#000000"

\* tokens.colors: theme -> group -> a hex string or a map shade -> hex string
TokenColors ==
    Obj([light |->
           Obj([primary |-> Obj(("50" :> Str("#EEF2FF")) @@ ("200" :> Str("#C7D2FE"))
                                @@ ("400" :> Str("#818CF8")) @@ ("500" :> Str("#6366F1"))),
                accent |-> Obj(("400" :> Str("#34D399")) @@ ("500" :> Str("#10B981"))),
                neutral |-> Obj(("50" :> Str("#F8FAFC")) @@ ("100" :> Str("#F1F5F9"))
                                @@ ("200" :> Str("#E2E8F0")) @@ ("300" :> Str("#CBD5E1"))
                                @@ ("900" :> Str("#0F172A"))),
                background |-> Str("#FFFFFF")]),
         dark |->
           Obj([primary |-> Obj("500" :> Str("#818CF8")),
                neutral |-> Obj(("50" :> Str("#020617")) @@ ("900" :> Str("#F8FAFC"))),
                background |-> Str("#0B1120")])])

\* tokens.spacing.base.scale
SpacingScale == <<0, 4, 8, 16, 24, 32, 48>>

\* getColor without the default shade: a token that names only a group finds no
\* shade
getColorShadeRequired(theme, token) ==
    LET parts == Split(token, "/")
        groupName == parts[1]
        shade == IF Len(parts) >= 2 THEN parts[2] ELSE ""
        resolvedTheme == IF Truthy(Member(TokenColors, theme)) THEN theme
                         ELSE DEFAULT_THEME
        group == Member(Member(TokenColors, resolvedTheme), groupName)
    IN IF ~Truthy(group) THEN Return(Str(DEFAULT_COLOR))
       ELSE IF group.t = "string" THEN Return(group)
       ELSE IF group.t \notin {"object", "function"} THEN Throw(HostTypeError)
       ELSE IF HasMember(group, shade) THEN Return(Member(group, shade))
       ELSE Return(Str(DEFAULT_COLOR))

\* getColor(theme, token): what it returns, or what it throws (the operator `in`
\* throws on a value that is no object)
getColor(theme, token) ==
    LET parts == Split(token, "/")
        groupName == parts[1]
        shade == IF Len(parts) >= 2 THEN parts[2] ELSE ""
        resolvedTheme == IF Truthy(Member(TokenColors, theme)) THEN theme
                         ELSE DEFAULT_THEME
        group == Member(Member(TokenColors, resolvedTheme), groupName)
    IN IF ~Truthy(group) THEN Return(Str(DEFAULT_COLOR))
       ELSE IF group.t = "string" THEN Return(group)
       ELSE IF group.t \notin {"object", "function"} THEN Throw(HostTypeError)
       ELSE IF shade = "" /\ HasMember(group, "500") THEN Return(Member(group, "500"))
       ELSE IF HasMember(group, shade) THEN Return(Member(group, shade))
       ELSE Return(Str(DEFAULT_COLOR))

Min(a, b) == IF a <= b THEN a ELSE b
Max(a, b) == IF a >= b THEN a ELSE b

\* spacing without Math.max: a negative step is read as it is
spacingUnclamped(step) ==
    LET index == Min(Len(SpacingScale) - 1, step) IN
    Return(IF 0 <= index /\ index < Len(SpacingScale) THEN Num(SpacingScale[index + 1])
           ELSE Undef)

\* spacing(step): scale[index] is undefined outside the array
spacing(step) ==
    LET index == Max(0, Min(Len(SpacingScale) - 1, step)) IN
    Return(IF 0 <= index /\ index < Len(SpacingScale) THEN Num(SpacingScale[index + 1])
           ELSE Undef)

(***************************************************************************)
(* hexToRgbaColor: the colour of an "rgba(r, g, b, a)" text                *)
(***************************************************************************)
\* a number as the quotient n / d
Ratio(n, d) == [n |-> n, d |-> d]

\* the character of s at position i, "" outside s
CharAt(s, i) == IF 1 <= i /\ i <= Len(s) THEN SubSeq(s, i, i) ELSE ""

\* the first position from i on whose character is outside class
RECURSIVE SkipIn(_, _, _)
SkipIn(s, i, class) ==
    IF i <= Len(s) /\ Ch(s, i) \in class THEN SkipIn(s, i + 1, class) ELSE i

\* Number(text) of a run of digits, acc being the value of the digits read
RECURSIVE DigitsValue(_, _)
DigitsValue(text, acc) ==
    IF text = "" THEN acc
    ELSE DigitsValue(SubSeq(text, 2, Len(text)), 10 * acc + DigitValue(Ch(text, 1)))

RECURSIVE TenTo(_)
TenTo(k) == IF k = 0 THEN 1 ELSE 10 * TenTo(k - 1)

\* Number(text) of digits, a "." among them or none
NumberOf(text) ==
    LET dots == {i \in 1..Len(text) : Ch(text, i) = "."} IN
    IF dots = {} THEN Ratio(DigitsValue(text, 0), 1)
    ELSE LET dot == CHOOSE i \in dots : TRUE
             digits == SubSeq(text, 1, dot - 1) \o SubSeq(text, dot + 1, Len(text))
         IN Ratio(DigitsValue(digits, 0), TenTo(Len(text) - dot))

NoGroup == [ok |-> FALSE, text |-> "", i |-> 0]

\* /rgba?\(/i at position i: the position after the "(", 0 when it is not there
RgbaOpen(s, i) ==
    IF ~(/\ CharAt(s, i) \in {"r", "R"}
         /\ CharAt(s, i + 1) \in {"g", "G"}
         /\ CharAt(s, i + 2) \in {"b", "B"}) THEN 0
    ELSE IF CharAt(s, i + 3) \in {"a", "A"} /\ CharAt(s, i + 4) = "(" THEN i + 5
    ELSE IF CharAt(s, i + 3) = "(" THEN i + 4
    ELSE 0

\* /\s*(\d+)\s*,/ at position i: the digits captured and the position after ","
ChannelGroup(s, i) ==
    LET from == SkipWs(s, i)
        to == SkipIn(s, from, Digits)
        comma == SkipWs(s, to)
    IN IF to > from /\ CharAt(s, comma) = ","
       THEN [ok |-> TRUE, text |-> SubSeq(s, from, to - 1), i |-> comma + 1]
       ELSE NoGroup

\* /\s*(\d*\.?\d+)\s*\)/ at position i: the text captured and the position after ")"
AlphaGroup(s, i) ==
    LET from == SkipWs(s, i)
        whole == SkipIn(s, from, Digits)
        dotted == CharAt(s, whole) = "."
        to == IF dotted THEN SkipIn(s, whole + 1, Digits) ELSE whole
        close == SkipWs(s, to)
    IN IF (IF dotted THEN to > whole + 1 ELSE to > from) /\ CharAt(s, close) = ")"
       THEN [ok |-> TRUE, text |-> SubSeq(s, from, to - 1), i |-> close + 1]
       ELSE NoGroup

\* the pattern tried at position p of s
MatchAt(s, p) ==
    LET open == RgbaOpen(s, p)
        r == IF open = 0 THEN NoGroup ELSE ChannelGroup(s, open)
        g == IF r.ok THEN ChannelGroup(s, r.i) ELSE NoGroup
        b == IF g.ok THEN ChannelGroup(s, g.i) ELSE NoGroup
        a == IF b.ok THEN AlphaGroup(s, b.i) ELSE NoGroup
    IN [found |-> a.ok, r |-> r.text, g |-> g.text, b |-> b.text, a |-> a.text]

\* rgba.match(pattern): the leftmost position of rgba where the pattern matches
MatchRgba(rgba) ==
    LET starts == {p \in 1..Len(rgba) : MatchAt(rgba, p).found} IN
    IF starts = {} THEN [found |-> FALSE, r |-> "", g |-> "", b |-> "", a |-> ""]
    ELSE MatchAt(rgba, CHOOSE p \in starts : \A q \in starts : p <= q)

FallbackColour == [r |-> Ratio(0, 1), g |-> Ratio(0, 1), b |-> Ratio(0, 1),
                   a |-> Ratio(16, 100)]

\* the call with the channels left undivided
hexToRgbaColorUndivided(rgba) ==
    LET match == MatchRgba(rgba) IN
    Return(IF ~match.found THEN FallbackColour
           ELSE [r |-> NumberOf(match.r), g |-> NumberOf(match.g),
                 b |-> NumberOf(match.b), a |-> NumberOf(match.a)])

hexToRgbaColor(rgba) ==
    LET match == MatchRgba(rgba)
        Over255(x) == Ratio(x.n, x.d * 255)
    IN Return(IF ~match.found THEN FallbackColour
              ELSE [r |-> Over255(NumberOf(match.r)), g |-> Over255(NumberOf(match.g)),
                    b |-> Over255(NumberOf(match.b)), a |-> NumberOf(match.a)])

\* the texts followed: "rgba(r, g, b, a)" with integer and decimal components and
\* with and without whitespace around them, and texts of other shapes
Gaps == {"", " ", "\t "}

RgbaText(r, g, b, a, gap) ==
    "rgba(" \o gap \o r \o gap \o "," \o gap \o g \o gap \o "," \o gap \o b \o gap
            \o "," \o gap \o a \o gap \o ")"

RgbaForms ==
    {[text |-> RgbaText(r, g, b, a, gap), r |-> r, g |-> g, b |-> b, a |-> a] :
        r \in {"0", "15", "12.5"}, g \in {"23", "0.5"}, b \in {"42"},
        a \in {"1", "0.08", ".5"}, gap \in Gaps}

OtherTexts ==
    {"", "#0F172A", "rgb(15,23,42)", "rgba(15,23,42)", "rgba(15,23,42,1", "rgba(-1,23,42,1)",
     "rgba (15,23,42,1)", "rgba(15,23,42,1.)", "rgba(15,23,42,0.5.5)", "rgba(15 23,42,1)",
     "rgba(15,23,42,1,1)", "rgb(15,23,42,.5)", "RGBA(15,23,42,1)", "box: rgba(15,23,42,1);",
     "rgba(300,23,42,2)", "rgba(015,23,42,0.50)", "rgbargba(15,\n23,42,1)"}

RgbaTexts == {f.text : f \in RgbaForms} \cup OtherTexts

\* the calls followed: theme names known, unknown and inherited; tokens with and
\* without a shade, with a second "/", with groups and shades known, unknown and
\* inherited; steps and weights below, in and beyond their tables
Themes == {"light", "dark", "sepia", "constructor", ""}
GroupNames == {"primary", "neutral", "background", "surface", "constructor", "toString", ""}
ShadeParts == {"", "/", "/500", "/50", "/950", "/name", "/toString", "/500/50"}
ResolverTokens == {g \o sh : g \in GroupNames, sh \in ShadeParts}
MaxStep == 8
Steps == (0 - MaxStep)..MaxStep
Weights == {0 - 100, 0 - 1, 0, 1, 400, 499, 500, 501, 599, 600, 601, 699, 700, 701, 900}

Queries ==
    {[fn |-> "getColor", args |-> <<th, tk>>] : th \in Themes, tk \in ResolverTokens}
    \cup {[fn |-> "spacing", args |-> <<step>>] : step \in Steps}
    \cup {[fn |-> "resolveInterFont", args |-> <<w>>] : w \in Weights}
    \cup {[fn |-> "hexToRgbaColor", args |-> <<text>>] : text \in RgbaTexts}

Pending == [ok |-> FALSE, v |-> Undef, error |-> [isError |-> FALSE, message |-> "pending"]]

\* the call q is in hand, the call before it being prior
Ask(q, prior) == [fn |-> q.fn, args |-> q.args, result |-> Pending, prior |-> prior]

\* the call in hand returns or throws
Settle(result) ==
    /\ resolved.result = Pending
    /\ resolved' = [resolved EXCEPT !.result = result]
    /\ UNCHANGED <<apiKey, inbox, received, before, pc, uiMessages, notices, requests,
                   nodes, page, siteContent, stack, bpc, landing, apc, call>>

CallGetColor ==
    /\ resolved.fn = "getColor"
    /\ Settle(getColor(resolved.args[1], resolved.args[2]))

CallSpacing ==
    /\ resolved.fn = "spacing"
    /\ Settle(spacing(resolved.args[1]))

CallResolveInterFont ==
    /\ resolved.fn = "resolveInterFont"
    /\ LET font == resolveInterFont(resolved.args[1]) IN
         Settle(Return(Obj([family |-> Str(font.family), style |-> Str(font.style)])))

CallHexToRgbaColor ==
    /\ resolved.fn = "hexToRgbaColor"
    /\ Settle(hexToRgbaColor(resolved.args[1]))

\* a second call follows the first
AskAgain ==
    /\ resolved.result # Pending
    /\ resolved.prior = NoQuery
    /\ \E q \in Queries :
         resolved' = Ask(q, [fn |-> resolved.fn, args |-> resolved.args,
                             result |-> resolved.result])
    /\ UNCHANGED <<apiKey, inbox, received, before, pc, uiMessages, notices, requests,
                   nodes, page, siteContent, stack, bpc, landing, apc, call>>

InitTokens ==
    /\ apiKey = Str("key")
    /\ inbox = [c \in Cmds |-> Undef]
    /\ received = [c \in Cmds |-> NoResponse]
    /\ before = [c \in Cmds |-> <<>>]
    /\ pc = [c \in Cmds |-> "idle"]
    /\ uiMessages = <<>>
    /\ notices = <<>>
    /\ requests = <<>>
    /\ nodes = <<>>
    /\ page = <<>>
    /\ siteContent = [c \in Cmds |-> Undef]
    /\ stack = [c \in Cmds |-> <<>>]
    /\ bpc = [c \in Cmds |-> 0]
    /\ landing = [c \in Cmds |-> 0]
    /\ apc = [c \in Cmds |-> 0]
    /\ call = [c \in Cmds |-> NoCall]
    /\ \E q \in Queries : resolved = Ask(q, NoQuery)

NextTokens ==
    \/ CallGetColor
    \/ CallSpacing
    \/ CallResolveInterFont
    \/ CallHexToRgbaColor
    \/ AskAgain

SpecTokens == InitTokens /\ [][NextTokens]_vars

(***************************************************************************)
(* Properties of the orchestrator (Spec)                                   *)
(***************************************************************************)
\* the positions of the status updates and of the requests of command c
StatusesOf(c) == {i \in 1..Len(uiMessages) : uiMessages[i].cmd = c}
RequestsOf(c) == {i \in 1..Len(requests) : requests[i].cmd = c}

\* the last status update of command c
LastStatus(c) ==
    uiMessages[CHOOSE i \in StatusesOf(c) : \A j \in StatusesOf(c) : j <= i]

\* command c has ended in Error with this text
EndedInError(c, text) ==
    /\ pc[c] = "done"
    /\ LastStatus(c).status = "error"
    /\ LastStatus(c).text = text

IsBlank(s) == \A i \in 1..Len(s) : Ch(s, i) \in WhiteSpace

HasBracePair(s) == \E i, j \in 1..Len(s) : i < j /\ Ch(s, i) = "{" /\ Ch(s, j) = "}"

BadPrompt(c) == inbox[c].t # "string" \/ IsBlank(inbox[c].s)
NoCredential == IsNullish(apiKey) \/ apiKey = Str("")

\* C1: a generate command whose prompt is not a string or is blank, or that is
\* issued with no credential configured, emits one 'error' status and returns
\* with no provider request and no scene node; the prompt is checked first, so a
\* bad prompt is what is reported when the credential is missing as well.
C1_Refused ==
    \A c \in Cmds :
        (pc[c] # "idle" /\ (BadPrompt(c) \/ NoCredential)) =>
            /\ EndedInError(c, IF BadPrompt(c) THEN MsgPrompt ELSE MsgNoKey)
            /\ Cardinality(StatusesOf(c)) = 1
            /\ RequestsOf(c) = {}
            /\ nodes = <<>>
            /\ page = <<>>

C1_Witness ==
    \E c \in Cmds : pc[c] = "done" /\ inbox[c] = Str(" \n ") /\ apiKey = Undef

\* the provider answered command c successfully, with these part texts
Answered(c, texts) == received[c] = Http(TRUE, "OK", Json(GeminiData(texts)))

\* C2 (as stated): a successful response whose text has no "{" followed later by
\* a "}" ends the command in Error with the content-format message of
\* parseGeminiJson, and no scene node exists.
C2_Original ==
    \A c \in Cmds, texts \in PartLists :
        (Answered(c, texts) /\ ~HasBracePair(Join(texts, "\n"))) =>
            /\ EndedInError(c, MsgNoJson)
            /\ nodes = <<>>

\* C2 (amended): a successful response whose text has no "{" followed later by a
\* "}" ends the command in Error and no scene node exists; the message is the
\* content-format message when the text is not blank, and the no-content
\* message when it is empty or whitespace only.
C2_FormatError ==
    \A c \in Cmds, texts \in PartLists :
        (Answered(c, texts) /\ ~HasBracePair(Join(texts, "\n"))) =>
            /\ EndedInError(c, IF IsBlank(Join(texts, "\n")) THEN MsgNoContent
                               ELSE MsgNoJson)
            /\ nodes = <<>>
            /\ page = <<>>

C2_Witness ==
    \E c \in Cmds :
        /\ Answered(c, <<"Maaf, saya tidak bisa membantu.">>)
        /\ EndedInError(c, MsgNoJson)

\* the provider answered command c with a non-success status
Failed(c) == received[c] # NoResponse /\ ~received[c].rejected /\ ~received[c].ok

\* error.message of the body of the response to command c; undefined when the
\* body is no JSON or has none
BodyMessage(c) ==
    IF received[c].json.ok
    THEN Get(Get(received[c].json.v, "error"), "message")
    ELSE Undef

\* C3: when the provider answers with a non-success status and a body that
\* parses to an object with a string error.message, the last status update of
\* the command is an 'error' whose text is exactly that message.
C3_ProviderMessage ==
    \A c \in Cmds :
        (Failed(c) /\ BodyMessage(c).t = "string") => EndedInError(c, BodyMessage(c).s)

C3_Witness ==
    \E c \in Cmds :
        /\ Failed(c)
        /\ BodyMessage(c) = Str("quota exceeded")
        /\ EndedInError(c, "quota exceeded")

\* C4 (as stated): when the provider answers with a non-success status and the
\* body has no string error.message, the final 'error' status carries the
\* response's status text.
C4_Original ==
    \A c \in Cmds :
        (Failed(c) /\ BodyMessage(c).t # "string") =>
            EndedInError(c, received[c].statusText)

\* C4 (amended): when the provider answers with a non-success status and the
\* body has no string error.message, the final 'error' status carries
\* "Gemini API error: " followed by the response's status text.
C4_StatusText ==
    \A c \in Cmds :
        (Failed(c) /\ BodyMessage(c).t # "string") =>
            EndedInError(c, "Gemini API error: " \o received[c].statusText)

C4_Witness ==
    \E c \in Cmds :
        /\ Failed(c)
        /\ received[c].statusText = "Too Many Requests"
        /\ ~received[c].json.ok
        /\ EndedInError(c, "Gemini API error: Too Many Requests")

\* the names applyGeminiContent looks up
AnchorIndexes == {"0", "1", "2"}

TextNames ==
    { "Hero:Heading", "Hero:Subheading", "HeroCTA:Primary:Label",
      "HeroCTA:Secondary:Label", "Hero:Assurance", "Testimonial:Heading",
      "Testimonial:Subtitle", "Testimonial:Quote", "Testimonial:Attribution",
      "Testimonial:AttributionRole", "Testimonial:Callout", "CTA:Heading", "CTA:Body",
      "CTA:PrimaryLabel", "CTA:SecondaryLabel" }
    \cup {"Hero:Highlight:" \o i \o ":Text" : i \in AnchorIndexes}
    \cup {"HeroMetric:" \o i \o ":Value" : i \in AnchorIndexes}
    \cup {"HeroMetric:" \o i \o ":Label" : i \in AnchorIndexes}
    \cup {"Testimonial:Bullet:" \o i \o ":Text" : i \in AnchorIndexes}

RowNames ==
    {"Hero:Highlight:" \o i : i \in AnchorIndexes}
    \cup {"Testimonial:Bullet:" \o i : i \in AnchorIndexes}

\* the nodes below root, root excluded
Below(ns, root) ==
    LET d == Walk(ns, ns[root].children) IN {d[i] : i \in 1..Len(d)}

\* C10: in every tree applyTokensDemo has produced, each text anchor that
\* applyGeminiContent looks up names a text node, and each row container it looks
\* up names nodes that are all frames.
C10_AnchorsBuilt ==
    \A c \in Cmds :
        landing[c] # 0 =>
            LET under == Below(nodes, landing[c]) IN
            /\ \A name \in TextNames :
                 \E id \in under : nodes[id].name = name /\ nodes[id].kind = "TEXT"
            /\ \A name \in RowNames :
                 /\ \E id \in under : nodes[id].name = name
                 /\ \A id \in under : nodes[id].name = name => nodes[id].kind = "FRAME"

C10_Witness ==
    \E c \in Cmds : pc[c] = "apply" /\ apc[c] = 1 /\ landing[c] # 0 /\ Len(nodes) > 100

(***************************************************************************)
(* Properties of applyGeminiContent (SpecApply)                            *)
(***************************************************************************)
\* applyGeminiContent has run to its end for command c
Applied(c) == landing[c] # 0 /\ apc[c] > Len(ApplyProgram)

\* the text anchor and the node of this name when applyGeminiContent was entered
TextAnchor(c, name) == findText(before[c], landing[c], name)
Container(c, name) == findByName(before[c], landing[c], name)

\* payload[section][field], undefined when the section is no object
PayloadField(c, section, field) == Get(Get(siteContent[c], section), field)

\* the item at index i (from 0) of a payload value, undefined when the value is
\* no list or has no such item
ItemAt(v, i) == IF v.t = "array" /\ i < Len(v.items) THEN v.items[i + 1] ELSE Undef

\* the repeatable rows: section, field, prefix of the row names
RowLists ==
    { <<"hero", "highlights", "Hero:Highlight:">>,
      <<"testimonial", "bullets", "Testimonial:Bullet:">> }

\* after applyGeminiContent, row i of list l shows item, or is hidden
RowFollows(c, l, i, shown) ==
    LET item == ItemAt(PayloadField(c, l[1], l[2]), i)
        text == TextAnchor(c, l[3] \o IndexText(i) \o ":Text")
        row == Container(c, l[3] \o IndexText(i))
    IN IF shown[i + 1] /\ text # 0
       THEN /\ nodes[text].characters = item.s
            /\ row # 0 => nodes[row].visible
       ELSE row # 0 => ~nodes[row].visible

\* C5 (as stated): after applyGeminiContent, for highlights and bullets and every
\* i in 0..2, if the payload has an item at i that is not null or undefined (the
\* empty string included) and the text anchor exists, the anchor's text is the
\* item and the row container is visible; otherwise the row container is hidden.
C5_Original ==
    \A c \in Cmds :
        Applied(c) =>
            \A l \in RowLists, i \in 0..2 :
                RowFollows(c, l, i,
                    [k \in 1..3 |-> ~IsNullish(ItemAt(PayloadField(c, l[1], l[2]), k - 1))])

\* C5 (amended): after applyGeminiContent, for highlights and bullets and every i
\* in 0..2, if the payload has a non-empty string at i and the text anchor
\* exists, the anchor's text is the item and the row container is visible;
\* otherwise (no list, no item, null, the empty string, or no text anchor) the
\* row container is hidden.
C5_RowsFollowItems ==
    \A c \in Cmds :
        Applied(c) =>
            \A l \in RowLists, i \in 0..2 :
                RowFollows(c, l, i,
                    [k \in 1..3 |->
                        LET item == ItemAt(PayloadField(c, l[1], l[2]), k - 1)
                        IN item.t = "string" /\ item.s # ""])

C5_Witness ==
    \E c \in Cmds :
        /\ Applied(c)
        /\ siteContent[c] = PayloadHighlights
        /\ TextAnchor(c, "Hero:Highlight:1:Text") # 0
        /\ nodes[TextAnchor(c, "Hero:Highlight:1:Text")].characters = "B"
        /\ Container(c, "Hero:Highlight:2") # 0
        /\ ~nodes[Container(c, "Hero:Highlight:2")].visible
        /\ Container(c, "Hero:Highlight:1") # 0
        /\ nodes[Container(c, "Hero:Highlight:1")].visible

\* the text anchors of the metric fields
MetricAnchors == { <<"value", ":Value">>, <<"label", ":Label">> }

\* C6: applyGeminiContent never changes the visibility of a metric card
\* HeroMetric:i; the Value (Label) anchor of card i changes only to
\* metrics[i].value (.label) when that is present, has it once applyGeminiContent
\* is over, and keeps its prior text when it is absent.
C6_MetricsKept ==
    \A c \in Cmds :
        landing[c] # 0 =>
            \A i \in 0..2 :
                LET card == Container(c, "HeroMetric:" \o IndexText(i))
                    metric == ItemAt(Get(siteContent[c], "metrics"), i)
                IN /\ card # 0 => nodes[card].visible = before[c][card].visible
                   /\ \A a \in MetricAnchors :
                        LET t == TextAnchor(c, "HeroMetric:" \o IndexText(i) \o a[2])
                            v == Get(metric, a[1])
                        IN t # 0 =>
                             /\ nodes[t].characters # before[c][t].characters =>
                                  ~IsNullish(v) /\ nodes[t].characters = v.s
                             /\ (Applied(c) /\ ~IsNullish(v)) => nodes[t].characters = v.s

C6_Witness ==
    \E c \in Cmds :
        /\ Applied(c)
        /\ siteContent[c] = PayloadFull
        /\ TextAnchor(c, "HeroMetric:0:Value") # 0
        /\ nodes[TextAnchor(c, "HeroMetric:0:Value")].characters = "1"
        /\ TextAnchor(c, "HeroMetric:1:Value") # 0
        /\ nodes[TextAnchor(c, "HeroMetric:1:Value")].characters = "2x"
        /\ TextAnchor(c, "HeroMetric:2:Value") # 0
        /\ nodes[TextAnchor(c, "HeroMetric:2:Value")].characters = "5 menit"
        /\ TextAnchor(c, "HeroMetric:2:Label") # 0
        /\ nodes[TextAnchor(c, "HeroMetric:2:Label")].characters = "three"
        /\ \A i \in 0..2 : nodes[Container(c, "HeroMetric:" \o IndexText(i))].visible

\* the non-repeatable fields: section, field, anchor
ScalarFields ==
    { <<"hero", "title", "Hero:Heading">>,
      <<"hero", "subtitle", "Hero:Subheading">>,
      <<"hero", "primaryCta", "HeroCTA:Primary:Label">>,
      <<"hero", "secondaryCta", "HeroCTA:Secondary:Label">>,
      <<"hero", "assurance", "Hero:Assurance">>,
      <<"testimonial", "heading", "Testimonial:Heading">>,
      <<"testimonial", "subtitle", "Testimonial:Subtitle">>,
      <<"testimonial", "quote", "Testimonial:Quote">>,
      <<"testimonial", "attribution", "Testimonial:Attribution">>,
      <<"testimonial", "attributionRole", "Testimonial:AttributionRole">>,
      <<"testimonial", "callout", "Testimonial:Callout">>,
      <<"cta", "title", "CTA:Heading">>,
      <<"cta", "subtitle", "CTA:Body">>,
      <<"cta", "primaryCta", "CTA:PrimaryLabel">>,
      <<"cta", "secondaryCta", "CTA:SecondaryLabel">> }

\* C7: after applyGeminiContent, the text of the anchor of every non-repeatable
\* field is the payload's value when that is present (the empty string too), and
\* is what it was before the call when the value or its section is absent.
C7_ScalarsFollowPayload ==
    \A c \in Cmds :
        Applied(c) =>
            \A f \in ScalarFields :
                LET t == TextAnchor(c, f[3])
                    v == PayloadField(c, f[1], f[2])
                IN t # 0 =>
                     nodes[t].characters =
                         IF IsNullish(v) THEN before[c][t].characters ELSE v.s

C7_Witness ==
    \E c \in Cmds :
        /\ Applied(c)
        /\ siteContent[c] = PayloadFull
        /\ TextAnchor(c, "Hero:Assurance") # 0
        /\ before[c][TextAnchor(c, "Hero:Assurance")].characters # ""
        /\ nodes[TextAnchor(c, "Hero:Assurance")].characters = ""
        /\ TextAnchor(c, "Testimonial:Subtitle") # 0
        /\ nodes[TextAnchor(c, "Testimonial:Subtitle")].characters # ""

\* the operation applyGeminiContent is at, for command c
CurrentOp(c) == ApplyProgram[apc[c]]

\* a step of applyGeminiContent raises no error
Unraised(c) ==
    (pc[c] = "apply" /\ pc'[c] # "apply") =>
        /\ pc'[c] \in {"font", "done"}
        /\ pc'[c] = "done" => uiMessages'[Len(uiMessages')].status = "success"

\* the payload value of operation o
ValueFor(c, o) ==
    CASE o.kind = "row" -> ItemAt(PayloadField(c, o.section, o.field), o.i)
      [] o.kind = "metric" -> Get(ItemAt(Get(siteContent[c], "metrics"), o.i), o.field)
      [] o.kind = "scalar" -> PayloadField(c, o.section, o.field)

\* a step of an operation of applyGeminiContent: a missing text anchor means no
\* font load and no change but to the row container; a text anchor that is
\* there, with a non-empty string for it, means a font load for that anchor
MissIsSilent(c) ==
    (pc[c] = "apply" /\ apc[c] <= Len(ApplyProgram)
       /\ (apc'[c] # apc[c] \/ pc'[c] # "apply")) =>
        LET o == CurrentOp(c)
            t == findText(nodes, landing[c], o.anchor)
            row == IF o.kind = "row" THEN findByName(nodes, landing[c], o.row) ELSE 0
            v == ValueFor(c, o)
        IN /\ t = 0 =>
                /\ pc'[c] = "apply"
                /\ \A id \in 1..Len(nodes) :
                     /\ nodes'[id].characters = nodes[id].characters
                     /\ id # row => nodes'[id] = nodes[id]
           /\ (t # 0 /\ v.t = "string" /\ v.s # "") =>
                /\ pc'[c] = "font"
                /\ call'[c].node = t
                /\ call'[c].value = v

\* C8: on a tree from which anchors are missing, no step of applyGeminiContent
\* raises an error; an operation whose text anchor is missing loads no font and
\* changes no text, one whose row container is missing too changes nothing, and
\* an operation whose text anchor is there and whose value is a non-empty string
\* goes on to load the anchor's font for that value.
C8_MissesAreSilent ==
    [][\A c \in Cmds : Unraised(c) /\ MissIsSilent(c)]_vars

C8_Witness ==
    \E c \in Cmds :
        /\ pc[c] = "done"
        /\ LastStatus(c).status = "success"
        /\ siteContent[c] = PayloadFull
        /\ \A name \in TextNames : TextAnchor(c, name) = 0
        /\ \A name \in RowNames : Container(c, name) = 0

\* some node's text changes in this step
TextChanged(id) == nodes'[id].characters # nodes[id].characters

\* a step of setText for command c in which the text is assigned
Assigns(c) == call'[c].assigns = 1 /\ call'[c] # call[c]

\* load-then-mutate: the text of a node is assigned, or changes, only in a step
\* of the setText call on that node, once every font the node uses is loaded;
\* and no call assigns twice
LoadThenAssign(c) ==
    /\ Assigns(c) =>
         /\ call'[c].node # 0
         /\ FontsUsed(nodes[call'[c].node]) \subseteq call'[c].loaded
    /\ (pc[c] \in {"apply", "font"} /\ \E id \in 1..Len(nodes) : TextChanged(id)) =>
         /\ Assigns(c)
         /\ \A id \in 1..Len(nodes) : TextChanged(id) => id = call'[c].node
    /\ call'[c].assigns <= 1

\* C9 (as stated): in setText the text is assigned only after every font the
\* node uses has loaded (the one font, or the font of every character when the
\* styling is mixed), and each setText call performs exactly one assignment.
C9_Original ==
    [][ \A c \in Cmds :
          /\ LoadThenAssign(c)
          /\ call'[c].returned => call'[c].assigns = 1 ]_vars

\* C9 (amended): in setText the text is assigned only after every font the node
\* uses has loaded (the one font, or the font of every character when the
\* styling is mixed), and each setText call performs at most one assignment:
\* exactly one when it is given a node and a value that is not null or undefined
\* and returns, none when it is given no node or no value.
C9_LoadThenAssign ==
    [][ \A c \in Cmds :
          /\ LoadThenAssign(c)
          /\ call'[c].returned =>
               call'[c].assigns =
                   IF call'[c].node = 0 \/ IsNullish(call'[c].value) THEN 0 ELSE 1 ]_vars

C9_Witness ==
    \E c \in Cmds :
        /\ call[c].returned
        /\ call[c].assigns = 1
        /\ Cardinality(call[c].loaded) = 2
        /\ before[c][call[c].node].fontName = Mixed
        /\ nodes[call[c].node].characters = call[c].value.s

(***************************************************************************)
(* Properties of two builds on one canvas (SpecBuild)                      *)
(***************************************************************************)
\* the tree below id as kinds and ordered children, node identities left out
RECURSIVE Topology(_, _)
Topology(ns, id) ==
    [kind |-> ns[id].kind,
     children |-> [i \in 1..Len(ns[id].children) |-> Topology(ns, ns[id].children[i])]]

\* the nodes of the tree of root, root included
TreeOf(ns, root) == Below(ns, root) \cup {root}

\* the names given with node.name = ... in the tree of root
NamesGiven(ns, root) == {ns[id].name : id \in {k \in TreeOf(ns, root) : ns[k].named}}

\* C11: two runs of applyTokensDemo that both returned left trees with the same
\* topology and the same set of names, the names applyGeminiContent looks up
\* among them, and the two trees have no node in common: every node of the canvas
\* belongs to exactly one of them.
C11_FreshEqualTrees ==
    \A a \in Builds, b \in Builds :
        (a # b /\ landing[a] # 0 /\ landing[b] # 0) =>
            /\ Topology(nodes, landing[a]) = Topology(nodes, landing[b])
            /\ NamesGiven(nodes, landing[a]) = NamesGiven(nodes, landing[b])
            /\ TextNames \cup RowNames \subseteq NamesGiven(nodes, landing[a])
            /\ TreeOf(nodes, landing[a]) \cap TreeOf(nodes, landing[b]) = {}
            /\ TreeOf(nodes, landing[a]) \cup TreeOf(nodes, landing[b]) = 1..Len(nodes)

\* both runs returned, the second having started before the first one ended: both
\* roots lie in the first half of the canvas
C11_Witness ==
    /\ \A c \in Builds : pc[c] = "done" /\ landing[c] # 0
    /\ landing["b1"] # landing["b2"]
    /\ \A c \in Builds : landing[c] + landing[c] <= Len(nodes)
    /\ Len(notices) = Cardinality(Builds)


\* the sections of the landing frame, in the order applyTokensDemo appends them
Sections == <<"Section/Hero", "Section/Testimonials", "Section/CTA">>

SectionNames == {Sections[i] : i \in 1..Len(Sections)}

\* the root of the build of c: the first frame it holds, then the one it returned
RootOf(c) == IF stack[c] # <<>> THEN stack[c][1] ELSE landing[c]

\* the children of the root of c are the first sections, in order; the one frame a
\* suspended build holds next to its root is the section that follows them; the
\* root is on the page only once it has all three and the build has returned
SectionsInOrder(c) ==
    LET root == RootOf(c)
        kids == nodes[root].children
    IN /\ Len(kids) <= Len(Sections)
       /\ \A i \in 1..Len(kids) :
            nodes[kids[i]].name = Sections[i] /\ nodes[kids[i]].kind = "FRAME"
       /\ pc[c] = "tokens" =>
            /\ Len(stack[c]) >= 2
            /\ Len(kids) < Len(Sections)
            /\ nodes[stack[c][2]].name = Sections[Len(kids) + 1]
            /\ \A i \in 3..Len(stack[c]) : nodes[stack[c][i]].name \notin SectionNames
       /\ (\E i \in 1..Len(page) : page[i] = root) =>
            Len(kids) = Len(Sections) /\ stack[c] = <<>> /\ landing[c] = root

\* a step leaves every section already appended to the root of c as it is
SectionsStay(c) ==
    LET root == RootOf(c)
        kids == nodes[root].children
    IN \A i \in 1..Len(kids) :
         /\ nodes'[RootOf(c)'].children[i] = kids[i]
         /\ \A id \in TreeOf(nodes, kids[i]) : nodes'[id] = nodes[id]

\* C12: in every build the root receives Section/Hero, Section/Testimonials and
\* Section/CTA in this order, a section is under construction only when all
\* sections before it are appended and it is never touched after its own append,
\* and figma.currentPage.appendChild(root) comes after the three appends.
C12_SectionsInOrder ==
    /\ [](\A c \in Builds : RootOf(c) # 0 => SectionsInOrder(c))
    /\ [][\A c \in Builds : RootOf(c) # 0 => SectionsStay(c)]_vars

\* one build is suspended in its third section while the other, started later, is
\* suspended in its second
C12_Witness ==
    \E a \in Builds, b \in Builds :
        /\ pc[a] = "tokens" /\ pc[b] = "tokens"
        /\ Len(nodes[stack[a][1]].children) = 2
        /\ Len(nodes[stack[b][1]].children) = 1

(***************************************************************************)
(* Properties of the token resolver (SpecTokens)                           *)
(***************************************************************************)
\* the call in hand is a call of fn and has returned or thrown
Settled(fn) == resolved.fn = fn /\ resolved.result # Pending

\* the call before the one in hand was a call of fn
After(fn) == resolved.prior # NoQuery /\ resolved.prior.fn = fn

\* the own keys of a schema object
Keys(v) == DOMAIN v.f

\* the colour values stored in tokens.colors
GroupColours(group) ==
    IF group.t = "string" THEN {group} ELSE {group.f[shade] : shade \in Keys(group)}

PaletteColours(palette) == UNION {GroupColours(palette.f[g]) : g \in Keys(palette)}

SchemaColours == UNION {PaletteColours(TokenColors.f[th]) : th \in Keys(TokenColors)}

\* theme is a key of tokens.colors
KnownTheme(theme) == theme \in Keys(TokenColors)

\* C13, as stated: whatever the theme and the token, getColor returns a colour
\* stored in the token schema or the default colour "#000000", and does not throw.
C13_Original ==
    Settled("getColor") =>
        /\ resolved.result.ok
        /\ resolved.result.v \in SchemaColours \cup {Str(DEFAULT_COLOR)}

\* getColor('light', 'constructor/name') has returned the name of the Object
\* constructor
C13_Witness ==
    /\ Settled("getColor")
    /\ resolved.args = <<"light", "constructor/name">>
    /\ resolved.result = Return(Str("Object"))

\* C14, as stated: for a theme that is no key of tokens.colors, getColor returns
\* what it returns for the theme 'light' and the same token.
C14_Original ==
    (/\ Settled("getColor")
     /\ After("getColor")
     /\ resolved.prior.args = <<"light", resolved.args[2]>>
     /\ ~KnownTheme(resolved.args[1]))
        => resolved.result = resolved.prior.result

\* getColor('light', 'primary/500') returned the stored colour and
\* getColor('constructor', 'primary/500') the default colour
C14_Witness ==
    /\ Settled("getColor")
    /\ After("getColor")
    /\ resolved.prior.args = <<"light", "primary/500">>
    /\ resolved.prior.result = Return(Str("#6366F1"))
    /\ resolved.args = <<"constructor", "primary/500">>
    /\ resolved.result = Return(Str(DEFAULT_COLOR))

\* tokens.colors[resolvedTheme][groupName] for the theme and the token of a call
ResolvedGroup(theme, token) ==
    LET slash == IndexOf(token, "/")
        groupName == IF slash = 0 THEN token ELSE SubSeq(token, 1, slash - 1)
        palette == IF Truthy(Member(TokenColors, theme)) THEN Member(TokenColors, theme)
                   ELSE TokenColors.f[DEFAULT_THEME]
    IN Member(palette, groupName)

\* C15: a token without "/" whose group is a shade map with a "500" entry yields
\* that entry, and a group that is a single string is returned as it is whatever
\* shade the token names.
C15_GroupOnlyAndStrings ==
    Settled("getColor") =>
        LET token == resolved.args[2]
            group == ResolvedGroup(resolved.args[1], token)
        IN /\ (IndexOf(token, "/") = 0 /\ group.t = "object" /\ "500" \in Keys(group))
                => resolved.result = Return(group.f["500"])
           /\ (group.t = "string" /\ group.s # "")
                => resolved.result = Return(group)

\* getColor('dark', 'primary') returned the '500' shade after
\* getColor('light', 'background/950') returned the string of the group
C15_Witness ==
    /\ Settled("getColor")
    /\ After("getColor")
    /\ resolved.prior.args = <<"light", "background/950">>
    /\ resolved.prior.result = Return(Str("#FFFFFF"))
    /\ resolved.args = <<"dark", "primary">>
    /\ resolved.result = Return(Str("#818CF8"))

\* C16: for every integer step, spacing returns the element of the scale at
\* min(max(step, 0), len - 1): the first element below 0, the last one beyond the
\* end, never a read outside the scale.
C16_Clamped ==
    Settled("spacing") =>
        LET step == resolved.args[1]
            last == Len(SpacingScale) - 1
            index == IF step < 0 THEN 0 ELSE IF step > last THEN last ELSE step
        IN /\ resolved.result = Return(Num(SpacingScale[index + 1]))
           /\ \E i \in 1..Len(SpacingScale) : resolved.result.v = Num(SpacingScale[i])

\* a negative step returned the first element after a step beyond the scale
\* returned the last
C16_Witness ==
    /\ Settled("spacing")
    /\ After("spacing")
    /\ resolved.prior.args[1] > Len(SpacingScale)
    /\ resolved.prior.result.v = Num(SpacingScale[Len(SpacingScale)])
    /\ resolved.args[1] < 0
    /\ resolved.result.v = Num(SpacingScale[1])

\* the threshold of the entry of INTER_STYLES with this style
ThresholdOf(style) ==
    LET i == CHOOSE k \in 1..Len(INTER_STYLES) : INTER_STYLES[k].style = style
    IN INTER_STYLES[i].threshold

\* the style resolveInterFont returned
StyleOf(result) == result.v.f.style.s

\* C17: the thresholds of INTER_STYLES are 700, 600, 500, 0; resolveInterFont
\* returns the style of the first entry whose threshold is <= weight, the last
\* entry when there is none; and of two calls, the one with the lower weight
\* selects the lower or the same threshold.
C17_FirstThresholdMonotonic ==
    /\ [i \in 1..Len(INTER_STYLES) |-> INTER_STYLES[i].threshold] = <<700, 600, 500, 0>>
    /\ Settled("resolveInterFont") =>
         LET weight == resolved.args[1]
             fits == {i \in 1..Len(INTER_STYLES) : INTER_STYLES[i].threshold <= weight}
             index == IF fits = {} THEN Len(INTER_STYLES)
                      ELSE CHOOSE i \in fits : \A j \in fits : i <= j
         IN /\ resolved.result.ok
            /\ StyleOf(resolved.result) = INTER_STYLES[index].style
            /\ (After("resolveInterFont") /\ resolved.prior.args[1] < weight)
                 => ThresholdOf(StyleOf(resolved.prior.result))
                      <= ThresholdOf(StyleOf(resolved.result))

\* a negative weight selected Regular, then the weight 700 selected Bold
C17_Witness ==
    /\ Settled("resolveInterFont")
    /\ After("resolveInterFont")
    /\ resolved.prior.args[1] < 0
    /\ StyleOf(resolved.prior.result) = "Regular"
    /\ resolved.args[1] = 700
    /\ StyleOf(resolved.result) = "Bold"

(***************************************************************************)
(* Properties of the statuses of a generate command (Spec)                 *)
(***************************************************************************)
\* the status tags command c has emitted, oldest first
TagsOf(c) ==
    LET at == StatusesOf(c)
        nth(k) == CHOOSE i \in at : Cardinality({j \in at : j <= i}) = k
    IN [k \in 1..Cardinality(at) |-> uiMessages[nth(k)].status]

Terminal == {"success", "error"}

\* the courses of Idle -> Loading -> Requesting -> Applying -> {Success, Error}
Courses ==
    { <<>>, <<"error">>, <<"loading">>, <<"loading", "error">>,
      <<"loading", "applying">>, <<"loading", "applying", "error">>,
      <<"loading", "applying", "success">> }

\* C18: the statuses of a generate command are a course of the state machine
\* ('loading' at most once and before 'applying', 'applying' at most once and
\* before 'success', 'success' only after both, nothing after 'success' or
\* 'error'), and the command has ended exactly when a terminal status is its last
\* status.
C18_StatusCourse ==
    \A c \in Cmds :
        LET tags == TagsOf(c) IN
        /\ tags \in Courses
        /\ pc[c] = "done" <=> (tags # <<>> /\ tags[Len(tags)] \in Terminal)
        /\ pc[c] = "fetch" <=> tags = <<"loading">>
        /\ pc[c] \in {"build", "apply", "font"} <=> tags = <<"loading", "applying">>

\* a command has ended in Success with its three statuses
C18_Witness ==
    \E c \in Cmds :
        /\ pc[c] = "done"
        /\ TagsOf(c) = <<"loading", "applying", "success">>
        /\ Len(nodes) > 0

\* the orchestrator states command c has entered, from what it has done: Loading
\* and Requesting once it has issued its request, Applying once it holds a
\* payload, Success once applyGeminiContent has run to its end, Error when it
\* ended otherwise
Requested(c) == RequestsOf(c) # {}
HoldsPayload(c) == siteContent[c] # Undef
Outcome(c) == IF apc[c] > Len(ApplyProgram) THEN "success" ELSE "error"

EnteredWith(c, requesting) ==
    (IF Requested(c) THEN <<"loading">> \o requesting ELSE <<>>)
    \o (IF HoldsPayload(c) THEN <<"applying">> ELSE <<>>)
    \o (IF pc[c] = "done" THEN <<Outcome(c)>> ELSE <<>>)

\* C19, as stated: every transition, Loading -> Requesting included, has emitted
\* one status update carrying the tag of the state entered and a text to read.
C19_Original ==
    \A c \in Cmds :
        /\ TagsOf(c) = EnteredWith(c, <<"requesting">>)
        /\ \A i \in StatusesOf(c) : uiMessages[i].text # ""

\* the status update at position i has a text, or is the 'error' of a provider
\* failure whose body carries the empty string as error.message
Readable(c, i) ==
    uiMessages[i].text = "" =>
        /\ uiMessages[i].status = "error"
        /\ Failed(c)
        /\ BodyMessage(c) = Str("")

\* C19: every transition other than Loading -> Requesting has emitted one status
\* update of type generation-status carrying the tag of the state entered and a
\* text, empty only when it repeats an empty provider message; the request is
\* issued under the 'loading' status, with no status update of its own.
C19_TransitionsReported ==
    \A c \in Cmds :
        /\ TagsOf(c) = EnteredWith(c, <<>>)
        /\ \A i \in StatusesOf(c) :
             uiMessages[i].type = "generation-status" /\ Readable(c, i)
        /\ Cardinality(RequestsOf(c)) <= 1

\* a command has issued its request, held a payload and ended in Success
C19_Witness ==
    \E c \in Cmds :
        /\ Requested(c) /\ HoldsPayload(c)
        /\ pc[c] = "done" /\ Outcome(c) = "success"
        /\ Cardinality(StatusesOf(c)) = 3

\* the notifications raised for command c
NoticesOf(c) == {i \in 1..Len(notices) : notices[i].cmd = c}

\* C20, as stated: a generate command that has ended in Error, whatever the kind,
\* has emitted an 'error' status update and raised a host notification, and has
\* ended inside handleGenerateAiSite.
C20_Original ==
    \A c \in Cmds :
        (pc[c] = "done" /\ Outcome(c) = "error") =>
            /\ LastStatus(c).status = "error"
            /\ NoticesOf(c) # {}

\* a command with a blank prompt has ended with its 'error' status and no
\* notification
C20_Witness ==
    \E c \in Cmds :
        /\ pc[c] = "done"
        /\ BadPrompt(c)
        /\ LastStatus(c).status = "error" /\ LastStatus(c).text = MsgPrompt
        /\ NoticesOf(c) = {}

(***************************************************************************)
(* Names within one build (SpecBuild)                                      *)
(***************************************************************************)
\* the number of these nodes carrying this name
Carriers(ids, name) == Cardinality({id \in ids : nodes[id].name = name})

\* C21: in the tree a build has returned, a name the builder has assigned is
\* carried by no other node of that tree, named or not; and every anchor name,
\* every section name and the root name is carried by exactly one node.
C21_NamesUnique ==
    \A c \in Builds :
        landing[c] # 0 =>
            LET own == TreeOf(nodes, landing[c])
                named == {id \in own : nodes[id].named}
                given == {nodes[id].name : id \in named}
            IN /\ Cardinality(given) = Cardinality(named)
               /\ \A id \in own \ named : nodes[id].name \notin given
               /\ \A name \in TextNames \cup RowNames \cup SectionNames
                               \cup {"Template/Landing-Refigma"} :
                    Carriers(own, name) = 1

\* both builds have returned: the canvas holds every anchor name twice, once in
\* each tree
C21_Witness ==
    /\ \A c \in Builds :
         /\ landing[c] # 0
         /\ Carriers(TreeOf(nodes, landing[c]), "Hero:Highlight:2:Text") = 1
    /\ Cardinality({id \in 1..Len(nodes) : nodes[id].name = "Hero:Highlight:2:Text"}) = 2

(***************************************************************************)
(* Failures while applying (Spec)                                          *)
(***************************************************************************)
\* command c fails in this step, in its build or in applyGeminiContent
FailsApplying(c) ==
    /\ pc[c] \in {"build", "apply", "font"}
    /\ pc'[c] = "done"
    /\ uiMessages'[Len(uiMessages')].status = "error"

\* C22: the step in which a command fails while Applying ends it in Error and
\* leaves the canvas as it is, the changes made so far included; a command that
\* has ended changes nothing any more.
C22_NoRollback ==
    [][\A c \in Cmds :
         /\ FailsApplying(c) =>
              /\ nodes' = nodes /\ page' = page
              /\ Len(uiMessages') = Len(uiMessages) + 1
         /\ pc[c] = "done" => (pc'[c] = "done" /\ nodes' = nodes /\ page' = page)]_vars

\* a font load of setText was rejected after texts had been changed: the command
\* has ended in Error with a tree that differs from the tree as built
C22_Witness ==
    \E c \in Cmds :
        /\ pc[c] = "done"
        /\ LastStatus(c).status = "error"
        /\ landing[c] # 0
        /\ apc[c] > 1
        /\ nodes # before[c]
        /\ \E i \in 1..Len(page) : page[i] = landing[c]

(***************************************************************************)
(* The build within Applying (Spec)                                        *)
(***************************************************************************)
\* command c has emitted this status
Emitted(c, status) == \E i \in StatusesOf(c) : uiMessages[i].status = status

\* C23: a scene node exists only once the command holds the payload its response
\* parsed to and has emitted 'applying'; 'success' is emitted only after the
\* build has returned a root, attached to the page, and applyGeminiContent has
\* run to its end on that root with that payload.
C23_BuildWithinApplying ==
    \A c \in Cmds :
        /\ (nodes # <<>> \/ page # <<>> \/ stack[c] # <<>>) =>
             /\ Emitted(c, "applying")
             /\ received[c] # NoResponse
             /\ siteContent[c] = requestGeminiContent(received[c]).v
             /\ siteContent[c].t = "object"
        /\ Emitted(c, "success") =>
             /\ bpc[c] > Len(BuildProgram)
             /\ landing[c] # 0
             /\ \E i \in 1..Len(page) : page[i] = landing[c]
             /\ apc[c] > Len(ApplyProgram)
             /\ stack[c] = <<>>
             /\ Len(nodes) = Len(before[c])

\* a command is suspended in its build, at the font load of a text node, with
\* 'applying' as its last status
C23_Witness ==
    \E c \in Cmds :
        /\ pc[c] = "build"
        /\ nodes # <<>>
        /\ LastStatus(c).status = "applying"
        /\ landing[c] = 0

(***************************************************************************)
(* Requests to the provider (Spec)                                         *)
(***************************************************************************)
\* C24: a generate command that has started has issued exactly one request when
\* its prompt and the credential passed validation and none otherwise, whatever
\* came back: a rejected fetch, a non-success status or an unparsable text is not
\* followed by a second request.
C24_OneRequest ==
    \A c \in Cmds :
        Cardinality(RequestsOf(c)) =
            (IF pc[c] # "idle" /\ ~BadPrompt(c) /\ ~NoCredential THEN 1 ELSE 0)

\* a command whose fetch was rejected has ended with its one request
C24_Witness ==
    \E c \in Cmds :
        /\ pc[c] = "done"
        /\ received[c] # NoResponse
        /\ received[c].rejected
        /\ Cardinality(RequestsOf(c)) = 1
        /\ LastStatus(c).status = "error"

(***************************************************************************)
(* The region parseGeminiJson parses (Spec)                                *)
(***************************************************************************)
\* the text requestGeminiContent hands to parseGeminiJson
RawText(texts) == Trim(Join(texts, "\n"))

\* the text from the leftmost "{" to the rightmost "}"
Region(text) == SubSeq(text, IndexOf(text, "{"), LastIndexOf(text, "}"))

\* the first brace-delimited JSON object of the text: the shortest text from the
\* leftmost "{" to a "}" that is JSON
FirstObject(text) ==
    LET first == IndexOf(text, "{")
        ends == {k \in 1..Len(text) :
                    /\ first # 0 /\ k > first /\ Ch(text, k) = "}"
                    /\ JsonParse(SubSeq(text, first, k)).ok}
    IN IF ends = {} THEN [found |-> FALSE, v |-> Undef]
       ELSE [found |-> TRUE,
             v |-> JsonParse(SubSeq(text, first,
                                    CHOOSE k \in ends : \A j \in ends : k <= j)).v]

\* C25, as stated: when the response text holds a first brace-delimited JSON
\* object, the command takes that object as its payload; otherwise it ends in
\* Error.
C25_Original ==
    \A c \in Cmds, texts \in PartLists :
        Answered(c, texts) =>
            LET object == FirstObject(RawText(texts)) IN
            IF object.found THEN siteContent[c] = object.v /\ Emitted(c, "applying")
            ELSE pc[c] = "done" /\ LastStatus(c).status = "error"

\* C25: the command parses the text from the leftmost "{" to the rightmost "}"
\* of the whole response text: when that region is JSON it is the payload, and
\* when there is no such region or it is not JSON (two objects in the text make
\* such a region) the command ends in Error with no scene node.
C25_RegionParsed ==
    \A c \in Cmds, texts \in PartLists :
        Answered(c, texts) =>
            LET text == RawText(texts) IN
            IF HasBracePair(text) /\ IndexOf(text, "{") < LastIndexOf(text, "}")
               /\ JsonParse(Region(text)).ok
            THEN siteContent[c] = JsonParse(Region(text)).v /\ Emitted(c, "applying")
            ELSE /\ pc[c] = "done" /\ LastStatus(c).status = "error"
                 /\ HasBracePair(text) /\ IndexOf(text, "{") < LastIndexOf(text, "}")
                      => LastStatus(c).text = MsgParseFailed
                 /\ nodes = <<>>

\* an object wrapped in prose became the payload
C25_Witness ==
    \E c \in Cmds :
        /\ Answered(c, <<"Berikut JSON-nya:\n" \o JsonStringify(PayloadHighlights)
                          \o "\nSemoga membantu.">>)
        /\ siteContent[c] = PayloadHighlights
        /\ Emitted(c, "applying")

(***************************************************************************)
(* Properties of hexToRgbaColor (SpecTokens)                               *)
(***************************************************************************)
\* the number a component text of RgbaForms denotes
Denotes(text) ==
    CASE text = "0" -> Ratio(0, 1)
      [] text = "15" -> Ratio(15, 1)
      [] text = "12.5" -> Ratio(25, 2)
      [] text = "23" -> Ratio(23, 1)
      [] text = "0.5" -> Ratio(1, 2)
      [] text = "42" -> Ratio(42, 1)
      [] text = "1" -> Ratio(1, 1)
      [] text = "0.08" -> Ratio(2, 25)
      [] text = ".5" -> Ratio(1, 2)

\* x and y are the same number
Same(x, y) == x.n * y.d = y.n * x.d

\* colour has the channels r, g, b divided by 255 and the alpha a
Normalized(colour, r, g, b, a) ==
    /\ Same(colour.r, Ratio(r.n, 255 * r.d))
    /\ Same(colour.g, Ratio(g.n, 255 * g.d))
    /\ Same(colour.b, Ratio(b.n, 255 * b.d))
    /\ Same(colour.a, a)

IsFallback(colour) ==
    /\ colour.r.n = 0 /\ colour.g.n = 0 /\ colour.b.n = 0
    /\ Same(colour.a, Ratio(4, 25))

\* the texts with no "rgb(" or "rgba(" followed by four unsigned numbers and ")"
Shapeless ==
    {"", "#0F172A", "rgb(15,23,42)", "rgba(15,23,42)", "rgba(15,23,42,1", "rgba(-1,23,42,1)",
     "rgba (15,23,42,1)", "rgba(15 23,42,1)", "rgba(15,23,42,1,1)", "rgba(15,23,42,0.5.5)"}

IsInteger(text) == \A i \in 1..Len(text) : SubSeq(text, i, i) # "."

\* C26 as stated: hexToRgbaColor never throws; a text "rgba(r, g, b, a)" whose
\* components are integers or decimals, whitespace around them, gives r, g, b
\* divided by 255 and a as given; a text that is no such text gives the
\* fallback colour (0, 0, 0, 0.16).
C26_Original ==
    Settled("hexToRgbaColor") =>
        /\ resolved.result.ok
        /\ \A f \in RgbaForms :
             f.text = resolved.args[1] =>
                 Normalized(resolved.result.v, Denotes(f.r), Denotes(f.g), Denotes(f.b),
                            Denotes(f.a))
        /\ resolved.args[1] \in Shapeless => IsFallback(resolved.result.v)

\* C26: hexToRgbaColor never throws; a text "rgba(r, g, b, a)" whose r, g and b
\* are unsigned integers and whose a is an unsigned integer or decimal,
\* whitespace around them, gives r, g, b divided by 255 and a as given; such a
\* text with a decimal r, g or b, and a text that is no such text, give the
\* fallback colour (0, 0, 0, 0.16).
C26_IntegerChannels ==
    Settled("hexToRgbaColor") =>
        /\ resolved.result.ok
        /\ \A f \in RgbaForms :
             f.text = resolved.args[1] =>
                 IF IsInteger(f.r) /\ IsInteger(f.g) /\ IsInteger(f.b)
                 THEN Normalized(resolved.result.v, Denotes(f.r), Denotes(f.g),
                                 Denotes(f.b), Denotes(f.a))
                 ELSE IsFallback(resolved.result.v)
        /\ resolved.args[1] \in Shapeless => IsFallback(resolved.result.v)

\* "rgba( 15 , 23 , 42 , 0.08 )" gave (15/255, 23/255, 42/255, 0.08), then
\* "rgba(12.5,23,42,1)" gave the fallback colour
C26_Witness ==
    /\ Settled("hexToRgbaColor")
    /\ After("hexToRgbaColor")
    /\ resolved.prior.args[1] = "rgba( 15 , 23 , 42 , 0.08 )"
    /\ resolved.prior.result.v = [r |-> Ratio(15, 255), g |-> Ratio(23, 255),
                                  b |-> Ratio(42, 255), a |-> Ratio(8, 100)]
    /\ resolved.args[1] = "rgba(12.5,23,42,1)"
    /\ IsFallback(resolved.result.v)

(***************************************************************************)
(* Properties of getColor: the shade a token names (SpecTokens)            *)
(***************************************************************************)
\* the palette of the theme, the one of the default theme for an unknown theme
PaletteOf(theme) ==
    IF KnownTheme(theme) THEN TokenColors.f[theme] ELSE TokenColors.f[DEFAULT_THEME]

\* the text of token before its first "/"
GroupPart(token) ==
    LET slash == IndexOf(token, "/") IN
    IF slash = 0 THEN token ELSE SubSeq(token, 1, slash - 1)

\* the text of token between its first "/" and its second one, "" without a "/"
ShadePart(token) ==
    LET slash == IndexOf(token, "/")
        rest == IF slash = 0 THEN "" ELSE SubSeq(token, slash + 1, Len(token))
        next == IndexOf(rest, "/")
    IN IF next = 0 THEN rest ELSE SubSeq(rest, 1, next - 1)

\* C27, as stated: a token that names a shade which the shade map of its group
\* lacks yields the default colour "#000000", also when the map has the shade
\* "500"; a token whose group the palette lacks yields the default colour.
C27_Original ==
    Settled("getColor") =>
        LET palette == PaletteOf(resolved.args[1])
            groupName == GroupPart(resolved.args[2])
            shade == ShadePart(resolved.args[2])
        IN IF groupName \notin Keys(palette)
           THEN resolved.result = Return(Str(DEFAULT_COLOR))
           ELSE (/\ palette.f[groupName].t = "object"
                 /\ shade # ""
                 /\ shade \notin Keys(palette.f[groupName]))
                    => resolved.result = Return(Str(DEFAULT_COLOR))

\* getColor('light', 'primary/950') returned the default colour, the map having
\* the shade '500', and then getColor('light', 'primary/toString') returned the
\* inherited function
C27_Witness ==
    /\ Settled("getColor")
    /\ After("getColor")
    /\ resolved.prior.args = <<"light", "primary/950">>
    /\ "500" \in Keys(TokenColors.f["light"].f["primary"])
    /\ resolved.prior.result = Return(Str(DEFAULT_COLOR))
    /\ resolved.args = <<"light", "primary/toString">>
    /\ resolved.result.ok
    /\ resolved.result.v.t = "function"

(***************************************************************************)
(* The frame of applyGeminiContent (SpecApply)                             *)
(***************************************************************************)
\* of the nodes d (a walk of a tree ns), the first one of each name in names,
\* text nodes only when textOnly
Firsts(ns, d, names, textOnly) ==
    LET hits == {i \in 1..Len(d) : /\ ns[d[i]].name \in names
                                   /\ textOnly => ns[d[i]].kind = "TEXT"}
    IN {d[h] : h \in {i \in hits : \A j \in hits : j < i => ns[d[j]].name # ns[d[i]].name}}

\* the strings of the payload at the places applyGeminiContent reads: the scalar
\* fields, the items 0..2 of the two lists, the two fields of the metrics 0..2
PayloadReads(c) ==
    LET values ==
            {PayloadField(c, s[1], s[2]) : s \in ScalarFields}
            \cup {ItemAt(PayloadField(c, l[1], l[2]), i) : l \in RowLists, i \in 0..2}
            \cup {Get(ItemAt(Get(siteContent[c], "metrics"), i), a[1]) :
                     i \in 0..2, a \in MetricAnchors}
    IN {v.s : v \in {x \in values : x.t = "string"}}

\* C28: applyGeminiContent creates, removes, re-parents, reorders and renames no
\* node; between the tree it was given and the tree at any point of the call,
\* only the text (body and fonts of the body) of the text anchors it looks up and
\* the visibility of the row containers Hero:Highlight:i and
\* Testimonial:Bullet:i differ, and a text that differs is a string the payload
\* holds at a place read, never an item at index 3 or beyond.
C28_FrameKept ==
    \A c \in Cmds :
        landing[c] # 0 =>
            LET old == before[c]
                below == Walk(old, old[landing[c]].children)
                texts == Firsts(old, below, TextNames, TRUE)
                rows == Firsts(old, below, RowNames, FALSE)
                reads == PayloadReads(c)
            IN /\ Len(nodes) = Len(old)
               /\ page = Built.page
               /\ \A id \in 1..Len(nodes) :
                    /\ nodes[id].kind = old[id].kind
                    /\ nodes[id].name = old[id].name
                    /\ nodes[id].named = old[id].named
                    /\ nodes[id].children = old[id].children
                    /\ id \notin rows => nodes[id].visible = old[id].visible
                    /\ id \notin texts =>
                         /\ nodes[id].characters = old[id].characters
                         /\ nodes[id].fontName = old[id].fontName
                         /\ nodes[id].rangeFonts = old[id].rangeFonts
                    /\ nodes[id].characters # old[id].characters =>
                         nodes[id].characters \in reads

\* the payload with four bullets has been applied: the third bullet shows its
\* item, the first highlight row is hidden, and no node holds the fourth bullet
C28_Witness ==
    \E c \in Cmds :
        /\ Applied(c)
        /\ siteContent[c] = PayloadOdd
        /\ ItemAt(PayloadField(c, "testimonial", "bullets"), 3) = Str("4")
        /\ TextAnchor(c, "Testimonial:Bullet:2:Text") # 0
        /\ nodes[TextAnchor(c, "Testimonial:Bullet:2:Text")].characters = "3"
        /\ before[c][TextAnchor(c, "Testimonial:Bullet:2:Text")].characters # "3"
        /\ Container(c, "Hero:Highlight:0") # 0
        /\ ~nodes[Container(c, "Hero:Highlight:0")].visible
        /\ before[c][Container(c, "Hero:Highlight:0")].visible
        /\ \A id \in 1..Len(nodes) : nodes[id].characters # "4"

(***************************************************************************)
(* Properties of two generate commands on the one canvas (SpecPair)        *)
(***************************************************************************)
\* the nodes command c has built so far: the tree of its root once
\* applyTokensDemo has returned it, before that the trees of the nodes its
\* builders hold
Owned(ns, root, held) ==
    LET d == Walk(ns, IF root # 0 THEN <<root>> ELSE held) IN {d[i] : i \in 1..Len(d)}

\* the handler of c takes this step
Acts(c) ==
    \/ pc'[c] # pc[c]
    \/ bpc'[c] # bpc[c]
    \/ apc'[c] # apc[c]
    \/ call'[c] # call[c]

\* the tree of root in document order, node identities left out
Outline(ns, root) ==
    LET d == <<root>> \o Walk(ns, ns[root].children) IN
    [i \in 1..Len(d) |-> [ns[d[i]] EXCEPT !.children = Len(@)]]

\* applyGeminiContent run from operation i to its end on the canvas ns with no
\* other handler in flight
RECURSIVE FilledAlone(_, _, _, _)
FilledAlone(ns, root, content, i) ==
    IF i > Len(ApplyProgram) THEN ns
    ELSE LET o == ApplyProgram[i]
             value == OpValue(content, o)
             textNode == findText(ns, root, o.anchor)
             row == IF o.kind = "row" THEN findByName(ns, root, o.row) ELSE 0
             next == IF o.kind = "row" /\ ~RowShown(value, textNode)
                     THEN (IF row # 0 THEN [ns EXCEPT ![row].visible = FALSE] ELSE ns)
                     ELSE IF SetTextReturns(textNode, value)
                     THEN (IF row # 0 THEN [ns EXCEPT ![row].visible = TRUE] ELSE ns)
                     ELSE Assign(ns, [node |-> textNode, value |-> value, row |-> row])
         IN IF Len(next) = 0 THEN next ELSE FilledAlone(next, root, content, i + 1)

\* the tree each command leaves when it runs alone with its payload
AloneOutlines ==
    [c \in Gens |->
        Outline(FilledAlone(Built.nodes, Built.landing, PairPayload(c), 1), Built.landing)]

====
